---- MODULE Spec2Model ----
(***************************************************************************)
(* Ocean run state machine: the `runs` table, signalRun / acquireRun /     *)
(* consumePendingInput / releaseRun (engine/run.ts) and the advance()      *)
(* scheduler with applyOutcome (ocean.ts).  Every database statement is    *)
(* one atomic step; the awaits between the statements of one advance()     *)
(* call are the points where other instances and signals interleave.       *)
(* The tools of a tick (clogs/tool-runtime.ts) with the scoped storage     *)
(* (engine/storage_scoped.ts) and the event log (engine/events.ts) with    *)
(* its cursor reads and its TTL sweep are modelled on a running tick.      *)
(***************************************************************************)
EXTENDS Integers, FiniteSets, Sequences, TLC

(* ------------------------------ bounds -------------------------------- *)
MaxClockSteps == 2          \* the clock takes the values 0 .. MaxClockSteps * TimeStep
MaxAttemptsChoice == 2      \* createRun draws retry.maxAttempts from 1 .. MaxAttemptsChoice (or omits it)
MaxBackoffN == 6            \* largest attempt a retry chain of the backoff runs reaches
MaxDrainRounds == 2         \* largest maxRounds a drain loop is given

LockMs == 2000              \* opts.lockMs of every advance() call, in ms
TimeStep == LockMs \div 2   \* granularity of the modelled clock: a lock lasts two steps

RunIds == {"r1"}            \* ids randomId("run") can return
DrainRunIds == {"r1", "r2", "r3"}   \* ids of the runs a bounded drain loop finds
Instances == {"A", "B"}     \* processes sharing the database, named by their instanceId
Inputs == {"a", "b"}        \* opaque JSON payloads
WaitDelays == {TimeStep}    \* a wait outcome asks for wakeAt = Date.now() + delay
Errors == {"boom"}          \* error strings of retry and failed outcomes
Messages == {"boom"}        \* messages of the exceptions a handler throws

(* --------------------------- value encoding --------------------------- *)
Null == "null"              \* SQL NULL / JS null in a text or JSON column
Undefined == "undefined"    \* JS undefined (an omitted argument)
NullTs == -1                \* SQL NULL in an integer column (timestamps are >= 0)

Terminal == {"done", "failed"}

\* `x ?? null`
Nullish(x) == IF x = Undefined THEN Null ELSE x

\* faulty variant of Lte: `<` where the statement has `<=`
LteStrict(col, n) == col # NullTs /\ col < n

\* SQL `col <= n`: NULL compares to nothing
Lte(col, n) == col # NullTs /\ col <= n

Min(a, b) == IF a <= b THEN a ELSE b

\* registry.getAdvanceHandler(clogId): "worker" registers onAdvance, "no-advance" has endpoints only
ClogIds == {"worker", "no-advance"}
\* faulty variant of getAdvanceHandler: every clog has an onAdvance handler
getAdvanceHandlerAlways(clogId) == clogId \in ClogIds
getAdvanceHandler(clogId) == clogId = "worker"

\* faulty variant of backoffMs: the cap is missing
backoffMsNoCap(attempt) == 1000 * (2 ^ attempt)
\* Math.min(1000 * Math.pow(2, attempt), 60_000)
backoffMs(attempt) == Min(1000 * (2 ^ attempt), 60000)

(* ------------------------------- state -------------------------------- *)
VARIABLES
  now,        \* nowMs()
  runs,       \* the runs table: run_id -> row
  pc,         \* per instance: where its advance() call stands
  run,        \* per instance: the RunRow returned by acquireRun
  outcome,    \* per instance: the TickOutcome of the handler
  fresh,      \* per instance: `freshRow?.pending_input != null` read by applyOutcome
  result,     \* per instance: the AdvanceResult its advance() call has just returned
  cron,       \* the drain loop calling advance(): its bound, its round, its total; and
              \* the handlers its calls have invoked so far
  \* history variables: they record what happened, no action reads them
  pendingSig,   \* per run: payload of the last signal() committed since advance() last
                \* took the run's pending_input (acquireRun, consumePendingInput)
  retryOf,      \* per run: input and attempt left by a retry release no signal has touched
  only,         \* per run: handler dispatches so far, while every tick ended in retry
  createdWith,  \* per run: the arguments of createRun, until a signal or an acquire
                \* first touches the run
  \* the tools of one tick (clogs/tool-runtime.ts, storage/)
  invokers,   \* the tool invokers toolInvokerFactoryForTickSync has made for the tick
  store,      \* the entity tables and the ocean_storage_* tables
  toolResult, \* the ToolResult of the tool call that has just returned
  tally,      \* per clog: read_scoped and write_scoped calls answered ok in the tick
  \* the event log (engine/events.ts)
  events,     \* the events table
  sqliteSeq,  \* sqlite_sequence of the events table: the largest seq ever assigned
  gc,         \* createOcean's eventsGc options and its lastGcTs
  reader,     \* a client paging through readEvents with a cursor
  \* history variable of the crash scenario: no action reads it
  lost        \* the run, the input and the attempt an instance held in memory, past
              \* consumePendingInput, when its process died

hist == <<pendingSig, retryOf, only, createdWith>>
tools == <<invokers, store, toolResult, tally>>
evs == <<events, sqliteSeq, gc, reader>>
vars == <<now, runs, pc, run, outcome, fresh, result, cron,
          pendingSig, retryOf, only, createdWith,
          invokers, store, toolResult, tally, events, sqliteSeq, gc, reader, lost>>

NoRun == [run_id |-> Null, clog_id |-> Null, status |-> Null, attempt |-> 0,
          max_attempts |-> 0, pending_input |-> Null]
NoOutcome == [status |-> Null, input |-> Undefined, wakeAt |-> NullTs, error |-> Null]
NoResult == [advanced |-> 0, runId |-> Null, outcome |-> Null]
NoSig == "none"
NoRetry == [set |-> FALSE, input |-> Null, attempt |-> 0]
Disqualified == [ok |-> FALSE, n |-> 0]
NoCreate == [set |-> FALSE, input |-> Undefined, maxAttempts |-> <<>>]
InFlight == {"consume", "dispatch", "handler", "release"}
\* no drain loop: advance() is called by whoever pokes the instance
NoCron == [on |-> FALSE, maxRounds |-> 0, round |-> 0, total |-> 0, stopped |-> FALSE,
           ticks |-> 0]

\* no process has died
NoLost == [set |-> FALSE, runId |-> Null, input |-> Null, attempt |-> 0]

\* ReadLedger of a new invoker
emptyLedger == [global |-> FALSE, session |-> {}, run |-> {}, tickRows |-> {}]
\* no tool call has returned yet; `kinds`, `named`, `seen`, `ops`, `address` and
\* `endpoint` record the input of the call, the rows it read and what the peer
\* endpoint did: no action reads them
NoToolResult ==
  [inv |-> 0, name |-> Null, threw |-> FALSE, ok |-> TRUE, code |-> Null, applied |-> 0,
   kinds |-> {}, named |-> emptyLedger, seen |-> {}, ops |-> <<>>, address |-> <<>>, endpoint |-> Null]
\* eventsTtlMs and eventsGcMinIntervalMs not given (<<>>), lastGcTs = 0; `sweeps`
\* and `sweptAt` record the calls of gcEventsByTtl: no action reads them
NoGc == [ttl |-> <<>>, minInterval |-> <<>>, lastGcTs |-> 0, sweeps |-> 0, sweptAt |-> NullTs]
\* a client that has read nothing yet: its scope, its cursor, the events it has
\* received
NoReader == [scope |-> [kind |-> "global", id |-> Null], afterSeq |-> 0, got |-> <<>>]
\* no tick is running: nobody holds a tool invoker
NoTools ==
  /\ invokers = <<>>
  /\ store = <<>>
  /\ toolResult = NoToolResult
  /\ tally = <<>>
\* the event log is not in use
NoEvents ==
  /\ events = {}
  /\ sqliteSeq = 0
  /\ gc = NoGc
  /\ reader = NoReader

Init ==
  /\ now = 0
  /\ runs = <<>>
  /\ pc = [i \in Instances |-> "idle"]
  /\ run = [i \in Instances |-> NoRun]
  /\ outcome = [i \in Instances |-> NoOutcome]
  /\ fresh = [i \in Instances |-> FALSE]
  /\ result = [i \in Instances |-> NoResult]
  /\ cron = NoCron
  /\ pendingSig = [r \in RunIds |-> NoSig]
  /\ retryOf = [r \in RunIds |-> NoRetry]
  /\ only = [r \in RunIds |-> Disqualified]
  /\ createdWith = [r \in RunIds |-> NoCreate]
  /\ NoTools
  /\ NoEvents
  /\ lost = NoLost

(* ------------------------- run store (engine/run.ts) ------------------ *)
\* the columns createRun's insert omits: the runs table gives attempt 0 and
\* null lock, wake_at and last_error to a new row
runsColumnDefaults ==
  [locked_by |-> Null, lock_expires_at |-> NullTs, attempt |-> 0,
   wake_at |-> NullTs, last_error |-> Null]

\* faulty variant of createRunRow: `opts.input != null` decides hasInput
createRunRowNullIsAbsent(clogId, input, maxAttempts, t) ==
  [clog_id |-> clogId,
   status |-> IF input \notin {Undefined, Null} THEN "pending" ELSE "idle",
   max_attempts |-> IF maxAttempts = <<>> THEN 3 ELSE maxAttempts[1],
   pending_input |-> IF input \notin {Undefined, Null} THEN input ELSE Null]
  @@ runsColumnDefaults

\* createRun: the row inserted; columns the insert omits take the schema defaults.
\* maxAttempts is <<>> when retry.maxAttempts is omitted and <<n>> when it is n.
createRunRow(clogId, input, maxAttempts, t) ==
  [clog_id |-> clogId,
   status |-> IF input # Undefined THEN "pending" ELSE "idle",
   max_attempts |-> IF maxAttempts = <<>> THEN 3 ELSE maxAttempts[1],
   pending_input |-> IF input # Undefined THEN input ELSE Null]
  @@ runsColumnDefaults

\* faulty variant of signalRun: the CASE flips an idle run only
signalRunIdleOnly(tbl, runId, input, t) ==
  IF runId \notin DOMAIN tbl THEN tbl
  ELSE [tbl EXCEPT ![runId] =
          [@ EXCEPT !.pending_input = Nullish(input),
                    !.status = IF @ = "idle" THEN "pending" ELSE @]]

\* faulty variant of signalRun: the CASE is missing, every signal sets status = 'pending'
signalRunAlwaysPending(tbl, runId, input, t) ==
  IF runId \notin DOMAIN tbl THEN tbl
  ELSE [tbl EXCEPT ![runId] =
          [@ EXCEPT !.pending_input = Nullish(input), !.status = "pending"]]

\* faulty variant of signalRun: the signal also sets attempt = 0
signalRunResetsAttempt(tbl, runId, input, t) ==
  IF runId \notin DOMAIN tbl THEN tbl
  ELSE [tbl EXCEPT ![runId] =
          [@ EXCEPT !.pending_input = Nullish(input),
                    !.attempt = 0,
                    !.status = IF @ \in {"idle", "waiting"} THEN "pending" ELSE @]]

\* faulty variant of signalRun: an undelivered input is not overwritten
signalRunKeepsInput(tbl, runId, input, t) ==
  IF runId \notin DOMAIN tbl THEN tbl
  ELSE [tbl EXCEPT ![runId] =
          [@ EXCEPT !.pending_input = IF @ = Null THEN Nullish(input) ELSE @,
                    !.status = IF @ \in {"idle", "waiting"} THEN "pending" ELSE @]]

\* signalRun: one UPDATE ... WHERE run_id = ?
signalRun(tbl, runId, input, t) ==
  IF runId \notin DOMAIN tbl THEN tbl
  ELSE [tbl EXCEPT ![runId] =
          [@ EXCEPT !.pending_input = Nullish(input),
                    !.status = IF @ \in {"idle", "waiting"} THEN "pending" ELSE @]]

\* faulty variant of Eligible: an expired lock is never stolen
EligibleNoSteal(row, t) ==
  /\ \/ row.status = "pending"
     \/ row.status = "waiting" /\ Lte(row.wake_at, t)
  /\ row.locked_by = Null

\* faulty variant of Eligible: the lock clause is missing
EligibleIgnoresLock(row, t) ==
  \/ row.status = "pending"
  \/ row.status = "waiting" /\ Lte(row.wake_at, t)

\* faulty variant of Eligible: the `status = 'pending'` alternative is missing
EligibleWaitingOnly(row, t) ==
  /\ row.status = "waiting" /\ Lte(row.wake_at, t)
  /\ \/ row.locked_by = Null
     \/ Lte(row.lock_expires_at, t)

\* the WHERE clause of acquireRun
Eligible(row, t) ==
  /\ \/ row.status = "pending"
     \/ row.status = "waiting" /\ Lte(row.wake_at, t)
  /\ \/ row.locked_by = Null
     \/ Lte(row.lock_expires_at, t)

\* faulty variant of acquireRow: the acquire also resets the attempt counter
acquireRowResetsAttempt(row, instanceId, lockMs, t) ==
  [row EXCEPT !.locked_by = instanceId, !.lock_expires_at = t + lockMs, !.attempt = 0]

\* faulty variant of acquireRow: the acquire also sets status = 'active'
acquireRowMarksActive(row, instanceId, lockMs, t) ==
  [row EXCEPT !.locked_by = instanceId, !.lock_expires_at = t + lockMs, !.status = "active"]

\* the SET clause of acquireRun
acquireRow(row, instanceId, lockMs, t) ==
  [row EXCEPT !.locked_by = instanceId, !.lock_expires_at = t + lockMs]

\* the RunRow acquireRun returns (RETURNING: the row after the update), cut down
\* to the fields advance() and applyOutcome read
RunRow(runId, row) ==
  [run_id |-> runId, clog_id |-> row.clog_id, status |-> row.status, attempt |-> row.attempt,
   max_attempts |-> row.max_attempts, pending_input |-> row.pending_input]

\* faulty variant of consumePendingInput: the row keeps its pending_input
consumePendingInputKeeps(tbl, runId) == tbl

\* consumePendingInput
consumePendingInput(tbl, runId) ==
  IF runId \notin DOMAIN tbl THEN tbl
  ELSE [tbl EXCEPT ![runId].pending_input = Null]

\* faulty variant of releaseRun: a null patch field is skipped like an undefined one
releaseRunSkipsNull(tbl, runId, patch, t) ==
  IF runId \notin DOMAIN tbl THEN tbl
  ELSE [tbl EXCEPT ![runId] =
          [@ EXCEPT !.locked_by = Null, !.lock_expires_at = NullTs,
                    !.status = patch.status,
                    !.attempt = IF "attempt" \in DOMAIN patch THEN patch.attempt ELSE @,
                    !.wake_at = IF "wake_at" \in DOMAIN patch /\ patch.wake_at # NullTs
                                THEN patch.wake_at ELSE @,
                    !.last_error = IF "last_error" \in DOMAIN patch /\ patch.last_error # Null
                                   THEN patch.last_error ELSE @,
                    !.pending_input = IF "pending_input" \in DOMAIN patch
                                         /\ patch.pending_input # Null
                                      THEN patch.pending_input ELSE @]]

\* faulty variant of releaseRun: `attempt: patch.attempt ?? 0`
releaseRunDefaultsAttempt(tbl, runId, patch, t) ==
  IF runId \notin DOMAIN tbl THEN tbl
  ELSE [tbl EXCEPT ![runId] =
          [@ EXCEPT !.locked_by = Null, !.lock_expires_at = NullTs,
                    !.status = patch.status,
                    !.attempt = IF "attempt" \in DOMAIN patch THEN patch.attempt ELSE 0,
                    !.wake_at = IF "wake_at" \in DOMAIN patch THEN patch.wake_at ELSE @,
                    !.last_error = IF "last_error" \in DOMAIN patch THEN patch.last_error ELSE @,
                    !.pending_input = IF "pending_input" \in DOMAIN patch
                                      THEN patch.pending_input ELSE @]]

\* faulty variant of releaseRun: lock_expires_at is not cleared
releaseRunKeepsExpiry(tbl, runId, patch, t) ==
  IF runId \notin DOMAIN tbl THEN tbl
  ELSE [tbl EXCEPT ![runId] =
          [@ EXCEPT !.locked_by = Null,
                    !.status = patch.status,
                    !.attempt = IF "attempt" \in DOMAIN patch THEN patch.attempt ELSE @,
                    !.wake_at = IF "wake_at" \in DOMAIN patch THEN patch.wake_at ELSE @,
                    !.last_error = IF "last_error" \in DOMAIN patch THEN patch.last_error ELSE @,
                    !.pending_input = IF "pending_input" \in DOMAIN patch
                                      THEN patch.pending_input ELSE @]]

\* faulty variant of releaseRun: the SET clause has no wake_at
releaseRunDropsWakeAt(tbl, runId, patch, t) ==
  IF runId \notin DOMAIN tbl THEN tbl
  ELSE [tbl EXCEPT ![runId] =
          [@ EXCEPT !.locked_by = Null,
                    !.lock_expires_at = NullTs,
                    !.status = patch.status,
                    !.attempt = IF "attempt" \in DOMAIN patch THEN patch.attempt ELSE @,
                    !.last_error = IF "last_error" \in DOMAIN patch THEN patch.last_error ELSE @,
                    !.pending_input = IF "pending_input" \in DOMAIN patch
                                      THEN patch.pending_input ELSE @]]

\* releaseRun: a patch field that is absent (undefined) leaves the column alone
releaseRun(tbl, runId, patch, t) ==
  IF runId \notin DOMAIN tbl THEN tbl
  ELSE [tbl EXCEPT ![runId] =
          [@ EXCEPT !.locked_by = Null,
                    !.lock_expires_at = NullTs,
                    !.status = patch.status,
                    !.attempt = IF "attempt" \in DOMAIN patch THEN patch.attempt ELSE @,
                    !.wake_at = IF "wake_at" \in DOMAIN patch THEN patch.wake_at ELSE @,
                    !.last_error = IF "last_error" \in DOMAIN patch THEN patch.last_error ELSE @,
                    !.pending_input = IF "pending_input" \in DOMAIN patch
                                      THEN patch.pending_input ELSE @]]

\* getRun(...)?.pending_input != null
hasPendingInput(tbl, runId) ==
  runId \in DOMAIN tbl /\ tbl[runId].pending_input # Null

(* --------------------------- applyOutcome (ocean.ts) ------------------ *)
\* faulty variant of exhausted: `>` where the code has `>=`
exhaustedLate(r) == r.attempt + 1 > r.max_attempts

\* retry: nextAttempt >= run.max_attempts
exhausted(r) == r.attempt + 1 >= r.max_attempts

\* faulty variant of retryInput: the consumed input is not written back
retryInputDropped(r) == Null

\* retry: the input the acquire snapshot carried goes back into pending_input
retryInput(r) == r.pending_input

\* the outcomes for which applyOutcome reads the row again before releasing
readsFresh(r, o) ==
  \/ o.status \in {"ok", "continue", "wait"}
  \/ o.status = "retry" /\ ~exhausted(r)

\* the patch applyOutcome hands to releaseRun
outcomePatch(r, o, hasNew, t) ==
  CASE o.status = "ok" ->
         IF hasNew
         THEN [status |-> "pending", attempt |-> 0, last_error |-> Null, wake_at |-> NullTs]
         ELSE [status |-> "idle", attempt |-> 0, last_error |-> Null, wake_at |-> NullTs,
               pending_input |-> Null]
    [] o.status = "done" ->
         [status |-> "done", attempt |-> 0, last_error |-> Null, wake_at |-> NullTs,
          pending_input |-> Null]
    [] o.status = "continue" ->
         IF hasNew
         THEN [status |-> "pending", attempt |-> 0, last_error |-> Null, wake_at |-> NullTs]
         ELSE [status |-> "pending", attempt |-> 0, last_error |-> Null, wake_at |-> NullTs,
               pending_input |-> Nullish(o.input)]
    [] o.status = "wait" ->
         IF hasNew
         THEN [status |-> "pending", attempt |-> 0, wake_at |-> NullTs, last_error |-> Null]
         ELSE [status |-> "waiting", attempt |-> 0, wake_at |-> o.wakeAt, last_error |-> Null,
               pending_input |-> Null]
    [] o.status = "retry" ->
         IF exhausted(r)
         THEN [status |-> "failed", attempt |-> r.attempt + 1, last_error |-> o.error,
               wake_at |-> NullTs, pending_input |-> Null]
         ELSE IF hasNew
              THEN [status |-> "pending", attempt |-> 0, wake_at |-> NullTs, last_error |-> Null]
              ELSE [status |-> "waiting", attempt |-> r.attempt + 1,
                    wake_at |-> t + backoffMs(r.attempt + 1), last_error |-> o.error,
                    pending_input |-> retryInput(r)]
    [] o.status = "failed" ->
         [status |-> "failed", last_error |-> o.error, wake_at |-> NullTs,
          pending_input |-> Null]

(* ------------------------------ actions ------------------------------- *)
\* the clock moves
Tick ==
  /\ now + TimeStep <= MaxClockSteps * TimeStep
  /\ now' = now + TimeStep
  /\ UNCHANGED <<runs, pc, run, outcome, fresh, result, hist, cron, tools, evs, lost>>

\* ocean.createRun({clogId, input?, retry?})
CreateRun ==
  \E runId \in RunIds \ DOMAIN runs, clogId \in ClogIds,
     input \in Inputs \cup {Null, Undefined},
     maxAttempts \in {<<>>} \cup {<<n>> : n \in 1 .. MaxAttemptsChoice} :
    /\ runs' = runs @@ (runId :> createRunRow(clogId, input, maxAttempts, now))
    /\ only' = [only EXCEPT ![runId] = [ok |-> TRUE, n |-> 0]]
    /\ createdWith' = [createdWith EXCEPT ![runId] =
                         [set |-> TRUE, input |-> input, maxAttempts |-> maxAttempts]]
    /\ UNCHANGED <<now, pc, run, outcome, fresh, result, pendingSig, retryOf, cron, tools,
                   evs, lost>>

\* ocean.signal(runId, input?)
Signal ==
  \E runId \in DOMAIN runs, input \in Inputs \cup {Null, Undefined} :
    /\ runs' = signalRun(runs, runId, input, now)
    /\ pendingSig' = [pendingSig EXCEPT ![runId] = Nullish(input)]
    /\ retryOf' = [retryOf EXCEPT ![runId] = NoRetry]
    /\ only' = [only EXCEPT ![runId] = Disqualified]
    /\ createdWith' = [createdWith EXCEPT ![runId] = NoCreate]
    /\ UNCHANGED <<now, pc, run, outcome, fresh, result, cron, tools, evs, lost>>

\* drain(maxRounds): `for (i = 0; i < maxRounds; i++)` with `if (n === 0) break`;
\* without a drain loop nothing limits the calls
cronCalls == cron.on => cron.round < cron.maxRounds /\ ~cron.stopped

\* advance(): acquireRun found no eligible row
AdvanceNone(i) ==
  /\ pc[i] = "idle"
  /\ cronCalls
  /\ \A runId \in DOMAIN runs : ~Eligible(runs[runId], now)
  /\ result' = [result EXCEPT ![i] = [advanced |-> 0, runId |-> Null, outcome |-> Null]]
  /\ pc' = [pc EXCEPT ![i] = "returned"]
  /\ UNCHANGED <<now, runs, run, outcome, fresh, hist, cron, tools, evs, lost>>

\* faulty variant of AdvanceAcquire: the UPDATE has no LIMIT 1 and locks every
\* eligible row
AdvanceAcquireAll(i) ==
  /\ pc[i] = "idle"
  /\ cronCalls
  /\ \E runId \in DOMAIN runs :
       /\ Eligible(runs[runId], now)
       /\ LET row == acquireRow(runs[runId], i, LockMs, now) IN
            /\ runs' = [r \in DOMAIN runs |->
                          IF Eligible(runs[r], now)
                          THEN acquireRow(runs[r], i, LockMs, now) ELSE runs[r]]
            /\ run' = [run EXCEPT ![i] = RunRow(runId, row)]
            /\ pc' = [pc EXCEPT ![i] =
                        IF row.pending_input # Null THEN "consume" ELSE "dispatch"]
            /\ pendingSig' = [pendingSig EXCEPT ![runId] = NoSig]
            /\ retryOf' = [retryOf EXCEPT ![runId] = NoRetry]
            /\ createdWith' = [createdWith EXCEPT ![runId] = NoCreate]
  /\ UNCHANGED <<now, outcome, fresh, result, only, cron, tools, evs, lost>>

\* advance(): acquireRun locks one eligible row (LIMIT 1) and returns it
AdvanceAcquire(i) ==
  /\ pc[i] = "idle"
  /\ cronCalls
  /\ \E runId \in DOMAIN runs :
       /\ Eligible(runs[runId], now)
       /\ LET row == acquireRow(runs[runId], i, LockMs, now) IN
            /\ runs' = [runs EXCEPT ![runId] = row]
            /\ run' = [run EXCEPT ![i] = RunRow(runId, row)]
            /\ pc' = [pc EXCEPT ![i] =
                        IF row.pending_input # Null THEN "consume" ELSE "dispatch"]
            /\ pendingSig' = [pendingSig EXCEPT ![runId] = NoSig]
            /\ retryOf' = [retryOf EXCEPT ![runId] = NoRetry]
            /\ createdWith' = [createdWith EXCEPT ![runId] = NoCreate]
  /\ UNCHANGED <<now, outcome, fresh, result, only, cron, tools, evs, lost>>

\* advance(): consumePendingInput(run.run_id)
AdvanceConsume(i) ==
  /\ pc[i] = "consume"
  /\ runs' = consumePendingInput(runs, run[i].run_id)
  /\ pc' = [pc EXCEPT ![i] = "dispatch"]
  /\ pendingSig' = [pendingSig EXCEPT ![run[i].run_id] = NoSig]
  /\ UNCHANGED <<now, run, outcome, fresh, result, retryOf, only, createdWith, cron, tools,
                 evs, lost>>

\* advance(): no onAdvance handler -> releaseRun(failed) and return
AdvanceNoHandler(i) ==
  /\ pc[i] = "dispatch"
  /\ ~getAdvanceHandler(run[i].clog_id)
  /\ runs' = releaseRun(runs, run[i].run_id,
                        [status |-> "failed", last_error |-> "no onAdvance handler"], now)
  /\ result' = [result EXCEPT ![i] =
                  [advanced |-> 1, runId |-> run[i].run_id, outcome |-> "failed"]]
  /\ pc' = [pc EXCEPT ![i] = "returned"]
  /\ run' = [run EXCEPT ![i] = NoRun]
  /\ only' = [only EXCEPT ![run[i].run_id] = Disqualified]
  /\ UNCHANGED <<now, outcome, fresh, pendingSig, retryOf, createdWith, cron, tools, evs, lost>>

\* advance(): beginTickEntity, build the invoker, call the handler
AdvanceBeginTick(i) ==
  /\ pc[i] = "dispatch"
  /\ getAdvanceHandler(run[i].clog_id)
  /\ pc' = [pc EXCEPT ![i] = "handler"]
  /\ only' = [only EXCEPT ![run[i].run_id] =
                IF @.ok THEN [ok |-> TRUE, n |-> @.n + 1] ELSE @]
  /\ cron' = IF cron.on THEN [cron EXCEPT !.ticks = @ + 1] ELSE cron
  /\ UNCHANGED <<now, runs, run, outcome, fresh, result, pendingSig, retryOf, createdWith,
                 tools, evs, lost>>

\* the TickOutcomes without an error a handler can return at time t
PlainOutcomes(t) ==
  {[status |-> s, input |-> Undefined, wakeAt |-> NullTs, error |-> Null] :
      s \in {"ok", "done"}}
  \cup {[status |-> "continue", input |-> x, wakeAt |-> NullTs, error |-> Null] :
      x \in Inputs \cup {Undefined}}
  \cup {[status |-> "wait", input |-> Undefined, wakeAt |-> t + d, error |-> Null] :
      d \in WaitDelays}

\* the TickOutcomes a handler can return at time t
Outcomes(t) ==
  PlainOutcomes(t)
  \cup {[status |-> s, input |-> Undefined, wakeAt |-> NullTs, error |-> e] :
      e \in Errors, s \in {"retry", "failed"}}

\* faulty variant of thrownOutcome: the exception ends the run
thrownOutcomeAsFailed(message) ==
  [status |-> "failed", input |-> Undefined, wakeAt |-> NullTs, error |-> message]

\* advance(): `catch (e) { outcome = { status: "retry", error: e.message } }`
thrownOutcome(message) ==
  [status |-> "retry", input |-> Undefined, wakeAt |-> NullTs, error |-> message]

\* applyOutcome: `await releaseRun(...)`, then advance() returns its result
Release(i, o, hasNew) ==
  /\ runs' = releaseRun(runs, run[i].run_id, outcomePatch(run[i], o, hasNew, now), now)
  /\ result' = [result EXCEPT ![i] =
                  [advanced |-> 1, runId |-> run[i].run_id, outcome |-> o.status]]
  /\ pc' = [pc EXCEPT ![i] = "returned"]
  /\ run' = [run EXCEPT ![i] = NoRun]
  /\ outcome' = [outcome EXCEPT ![i] = NoOutcome]
  /\ fresh' = [fresh EXCEPT ![i] = FALSE]
  /\ retryOf' = [retryOf EXCEPT ![run[i].run_id] =
                   IF /\ o.status = "retry"
                      /\ run[i].attempt + 1 < run[i].max_attempts
                      /\ pendingSig[run[i].run_id] = NoSig
                   THEN [set |-> TRUE, input |-> run[i].pending_input,
                         attempt |-> run[i].attempt + 1]
                   ELSE NoRetry]
  /\ only' = [only EXCEPT ![run[i].run_id] = IF o.status = "retry" THEN @ ELSE Disqualified]
  /\ UNCHANGED <<now, pendingSig, createdWith, cron, tools, evs, lost>>

\* what the rest of applyOutcome still reads of `run` once the outcome is known:
\* run_id in every case, attempt, max_attempts and pending_input in case "retry"
liveAfterRead(r, o) ==
  IF o.status = "retry" THEN r ELSE [NoRun EXCEPT !.run_id = r.run_id]

\* applyOutcome(db, run, o) up to its first database statement: for ok, continue,
\* wait and a non-exhausted retry that is `freshRow = await getRun(...)`, for the
\* other outcomes it is the releaseRun itself
applyOutcome(i, o) ==
  IF readsFresh(run[i], o)
  THEN /\ outcome' = [outcome EXCEPT ![i] = o]
       /\ fresh' = [fresh EXCEPT ![i] = hasPendingInput(runs, run[i].run_id)]
       /\ pc' = [pc EXCEPT ![i] = "release"]
       /\ run' = [run EXCEPT ![i] = liveAfterRead(@, o)]
       /\ UNCHANGED <<now, runs, result, pendingSig, retryOf, only, createdWith, cron, tools,
                      evs, lost>>
  ELSE Release(i, o, FALSE)

\* the handler returns a TickOutcome
HandlerReturn(i) ==
  /\ pc[i] = "handler"
  /\ \E o \in Outcomes(now) : applyOutcome(i, o)

\* the handler throws
HandlerThrow(i) ==
  /\ pc[i] = "handler"
  /\ \E m \in Messages : applyOutcome(i, thrownOutcome(m))

\* applyOutcome after the getRun: the releaseRun with the patch chosen from freshRow
ApplyRelease(i) ==
  /\ pc[i] = "release"
  /\ Release(i, outcome[i], fresh[i])

\* the caller of advance() takes the AdvanceResult; the instance can be poked again
AdvanceReturn(i) ==
  /\ pc[i] = "returned"
  /\ pc' = [pc EXCEPT ![i] = "idle"]
  /\ result' = [result EXCEPT ![i] = NoResult]
  /\ cron' = IF cron.on
             THEN [cron EXCEPT !.round = @ + 1,
                               !.total = @ + result[i].advanced,
                               !.stopped = result[i].advanced = 0]
             ELSE cron
  /\ UNCHANGED <<now, runs, run, outcome, fresh, hist, tools, evs, lost>>

\* the process dies in the middle of advance() and is restarted with the same instanceId
Crash(i) ==
  /\ pc[i] \in InFlight
  /\ pc' = [pc EXCEPT ![i] = "idle"]
  /\ run' = [run EXCEPT ![i] = NoRun]
  /\ outcome' = [outcome EXCEPT ![i] = NoOutcome]
  /\ fresh' = [fresh EXCEPT ![i] = FALSE]
  /\ only' = [only EXCEPT ![run[i].run_id] = Disqualified]
  /\ UNCHANGED <<now, runs, result, pendingSig, retryOf, createdWith, cron, tools, evs, lost>>

\* the bounded-tick discipline: a tick in flight finishes (or its process dies)
\* before the lock taken for it expires
TickBounded ==
  /\ \A i \in Instances :
       pc[i] \in InFlight /\ run[i].run_id \in DOMAIN runs
         => now + TimeStep < runs[run[i].run_id].lock_expires_at
  /\ Tick

Step ==
  \/ CreateRun
  \/ Signal
  \/ \E i \in Instances : AdvanceNone(i)
  \/ \E i \in Instances : AdvanceAcquire(i)
  \/ \E i \in Instances : AdvanceConsume(i)
  \/ \E i \in Instances : AdvanceNoHandler(i)
  \/ \E i \in Instances : AdvanceBeginTick(i)
  \/ \E i \in Instances : HandlerReturn(i)
  \/ \E i \in Instances : HandlerThrow(i)
  \/ \E i \in Instances : ApplyRelease(i)
  \/ \E i \in Instances : AdvanceReturn(i)
  \/ \E i \in Instances : Crash(i)

Next == Tick \/ Step

\* every interleaving, handlers that outlive their lock included
Spec == Init /\ [][Next]_vars

NextBounded == TickBounded \/ Step

\* the interleavings in which every tick keeps to the bounded-tick discipline
SpecBounded == Init /\ [][NextBounded]_vars

(* ---------------------- handlers that report errors by throwing ------- *)
\* the handler returns an outcome without an error
HandlerReturnPlain(i) ==
  /\ pc[i] = "handler"
  /\ \E o \in PlainOutcomes(now) : applyOutcome(i, o)

NextThrow ==
  \/ TickBounded
  \/ CreateRun
  \/ Signal
  \/ \E i \in Instances : AdvanceNone(i)
  \/ \E i \in Instances : AdvanceAcquire(i)
  \/ \E i \in Instances : AdvanceConsume(i)
  \/ \E i \in Instances : AdvanceNoHandler(i)
  \/ \E i \in Instances : AdvanceBeginTick(i)
  \/ \E i \in Instances : HandlerReturnPlain(i)
  \/ \E i \in Instances : HandlerThrow(i)
  \/ \E i \in Instances : ApplyRelease(i)
  \/ \E i \in Instances : AdvanceReturn(i)
  \/ \E i \in Instances : Crash(i)

\* bounded ticks of handlers that never return retry or failed themselves: every
\* error outcome applied comes from an exception
SpecThrow == Init /\ [][NextThrow]_vars

(* ---------------------- one instance, long retry chains --------------- *)
\* ocean.createRun({clogId, input, retry: {maxAttempts}}) with a retry budget
\* large enough for the backoff to reach its cap
CreateRunBackoff ==
  \E runId \in RunIds \ DOMAIN runs, clogId \in ClogIds, input \in Inputs :
    /\ runs' = runs @@ (runId :> createRunRow(clogId, input, <<MaxBackoffN + 1>>, now))
    /\ only' = [only EXCEPT ![runId] = [ok |-> TRUE, n |-> 0]]
    /\ createdWith' = [createdWith EXCEPT ![runId] =
                         [set |-> TRUE, input |-> input,
                          maxAttempts |-> <<MaxBackoffN + 1>>]]
    /\ UNCHANGED <<now, pc, run, outcome, fresh, result, pendingSig, retryOf, cron, tools,
                   evs, lost>>

\* the time a chain of retries from attempt 0 to attempt n spends in backoff
RECURSIVE BackoffTotal(_)
BackoffTotal(n) == IF n = 0 THEN 0 ELSE BackoffTotal(n - 1) + backoffMs(n)

\* between two advance() calls the clock moves on to the wakeAt of a run in
\* retry backoff, as long as one full chain of retries fits in the time modelled
Sleep ==
  /\ \A i \in Instances : pc[i] \notin InFlight
  /\ \E r \in DOMAIN runs :
       /\ runs[r].status = "waiting" /\ runs[r].attempt >= 1
       /\ runs[r].wake_at > now
       /\ runs[r].wake_at <= BackoffTotal(MaxBackoffN)
       /\ now' = runs[r].wake_at
  /\ UNCHANGED <<runs, pc, run, outcome, fresh, result, hist, cron, tools, evs, lost>>

NextBackoff ==
  \/ CreateRunBackoff
  \/ Sleep
  \/ AdvanceNone("A")
  \/ AdvanceAcquire("A")
  \/ AdvanceConsume("A")
  \/ AdvanceNoHandler("A")
  \/ AdvanceBeginTick("A")
  \/ HandlerReturn("A")
  \/ HandlerThrow("A")
  \/ ApplyRelease("A")
  \/ AdvanceReturn("A")

\* one instance drains one run through retry after retry
SpecBackoff == Init /\ [][NextBackoff]_vars

(* ---------------------- a dead instance, a live one ------------------- *)
\* the process of instance i dies during a tick and never comes back
Die(i) ==
  /\ pc[i] \in InFlight
  /\ pc' = [pc EXCEPT ![i] = "dead"]
  /\ run' = [run EXCEPT ![i] = NoRun]
  /\ outcome' = [outcome EXCEPT ![i] = NoOutcome]
  /\ fresh' = [fresh EXCEPT ![i] = FALSE]
  /\ only' = [only EXCEPT ![run[i].run_id] = Disqualified]
  /\ UNCHANGED <<now, runs, result, pendingSig, retryOf, createdWith, cron, tools, evs, lost>>

\* one statement of an advance() call of instance i
AdvanceStep(i) ==
  \/ AdvanceNone(i)
  \/ AdvanceAcquire(i)
  \/ AdvanceConsume(i)
  \/ AdvanceNoHandler(i)
  \/ AdvanceBeginTick(i)
  \/ HandlerReturn(i)
  \/ HandlerThrow(i)
  \/ ApplyRelease(i)
  \/ AdvanceReturn(i)

NextLive ==
  \/ TickBounded
  \/ CreateRun
  \/ Signal
  \/ AdvanceStep("A")
  \/ Die("A")
  \/ AdvanceStep("B")

\* instance A may die in a tick; instance B is live: it calls advance() again
\* and again and each of its calls runs to its end
SpecLive == Init /\ [][NextLive]_vars /\ WF_vars(AdvanceStep("B"))

(* ---------------------- a process that dies after the consume --------- *)
\* the process of instance i dies during a tick, after consumePendingInput has
\* cleared the input acquireRun returned, and never comes back; what it held in
\* memory is gone with it
DieConsumed(i) ==
  /\ pc[i] \in {"dispatch", "handler", "release"}
  /\ run[i].pending_input # Null
  /\ pc' = [pc EXCEPT ![i] = "dead"]
  /\ run' = [run EXCEPT ![i] = NoRun]
  /\ outcome' = [outcome EXCEPT ![i] = NoOutcome]
  /\ fresh' = [fresh EXCEPT ![i] = FALSE]
  /\ only' = [only EXCEPT ![run[i].run_id] = Disqualified]
  /\ lost' = [set |-> TRUE, runId |-> run[i].run_id, input |-> run[i].pending_input,
              attempt |-> run[i].attempt]
  /\ UNCHANGED <<now, runs, result, pendingSig, retryOf, createdWith, cron, tools, evs>>

NextCrash ==
  \/ TickBounded
  \/ CreateRun
  \/ Signal
  \/ AdvanceStep("A")
  \/ DieConsumed("A")
  \/ AdvanceStep("B")

\* instance A may die in a tick that has consumed its input; instance B goes on
SpecCrash == Init /\ [][NextCrash]_vars

(* ---------------------- several runs, one scheduler ------------------- *)
FairRunIds == {"r1", "r2"}  \* ids of the runs that compete for advance()

\* no run exists yet
InitFair ==
  /\ now = 0
  /\ runs = <<>>
  /\ pc = [i \in Instances |-> "idle"]
  /\ run = [i \in Instances |-> NoRun]
  /\ outcome = [i \in Instances |-> NoOutcome]
  /\ fresh = [i \in Instances |-> FALSE]
  /\ result = [i \in Instances |-> NoResult]
  /\ cron = NoCron
  /\ pendingSig = [r \in FairRunIds |-> NoSig]
  /\ retryOf = [r \in FairRunIds |-> NoRetry]
  /\ only = [r \in FairRunIds |-> Disqualified]
  /\ createdWith = [r \in FairRunIds |-> NoCreate]
  /\ NoTools
  /\ NoEvents
  /\ lost = NoLost

\* ocean.createRun({clogId, input}) of one of the competing runs
CreateRunFair ==
  \E runId \in FairRunIds \ DOMAIN runs, clogId \in ClogIds, input \in Inputs :
    /\ runs' = runs @@ (runId :> createRunRow(clogId, input, <<>>, now))
    /\ only' = [only EXCEPT ![runId] = [ok |-> TRUE, n |-> 0]]
    /\ createdWith' = [createdWith EXCEPT ![runId] =
                         [set |-> TRUE, input |-> input, maxAttempts |-> <<>>]]
    /\ UNCHANGED <<now, pc, run, outcome, fresh, result, pendingSig, retryOf, cron, tools,
                   evs, lost>>

NextFair ==
  \/ Tick
  \/ CreateRunFair
  \/ AdvanceStep("A")

\* one instance whose advance() is called again and again and whose handlers
\* return; the runs and the clock are free, nobody signals
SpecFair == InitFair /\ [][NextFair]_vars /\ WF_vars(AdvanceStep("A"))

(* ---------------------- a bounded drain loop -------------------------- *)
\* cron.drain(maxRounds) is about to start on one instance
InitDrain ==
  /\ now = 0
  /\ runs = <<>>
  /\ pc = [i \in Instances |-> "idle"]
  /\ run = [i \in Instances |-> NoRun]
  /\ outcome = [i \in Instances |-> NoOutcome]
  /\ fresh = [i \in Instances |-> FALSE]
  /\ result = [i \in Instances |-> NoResult]
  /\ \E k \in 1 .. MaxDrainRounds : cron = [NoCron EXCEPT !.on = TRUE, !.maxRounds = k]
  /\ pendingSig = [r \in DrainRunIds |-> NoSig]
  /\ retryOf = [r \in DrainRunIds |-> NoRetry]
  /\ only = [r \in DrainRunIds |-> Disqualified]
  /\ createdWith = [r \in DrainRunIds |-> NoCreate]
  /\ NoTools
  /\ NoEvents
  /\ lost = NoLost

\* ocean.createRun({clogId, input}) of one more run for the loop to find
CreateRunDrain ==
  \E runId \in DrainRunIds \ DOMAIN runs, clogId \in ClogIds, input \in Inputs :
    /\ runs' = runs @@ (runId :> createRunRow(clogId, input, <<>>, now))
    /\ only' = [only EXCEPT ![runId] = [ok |-> TRUE, n |-> 0]]
    /\ createdWith' = [createdWith EXCEPT ![runId] =
                         [set |-> TRUE, input |-> input, maxAttempts |-> <<>>]]
    /\ UNCHANGED <<now, pc, run, outcome, fresh, result, pendingSig, retryOf, cron, tools,
                   evs, lost>>

\* runs are created and the loop drains them; nobody signals meanwhile
NextDrain ==
  \/ CreateRunDrain
  \/ AdvanceStep("A")

\* one instance, several runs, a drain loop of at most cron.maxRounds rounds
SpecDrain == InitDrain /\ [][NextDrain]_vars

(* ---------- scoped storage (storage/read_scoped.ts, write_scoped.ts) --- *)
MaxPlans == 2               \* longest `plans` list a read_scoped call is given
MaxOps == 2                 \* longest `ops` batch a write_scoped call is given
MaxInvokers == 2            \* tool invokers one tick gets: the owner's, and one per ocean.clog.call

SessionIds == {"s1", "s2"}  \* session ids a plan or an op can name
ScopeRunIds == {"r1", "r2"} \* run ids a plan or an op can name
TickIds == {"t0", "t1"}     \* tick ids a plan or an op can name
\* (runId, tickId) pairs a plan or an op can name: the tick's own, one of another
\* tick of the run, one of another run
TickScopes == {<<"r1", "t1">>, <<"r1", "t0">>, <<"r2", "t1">>}
RowIds == {"x", "y"}        \* row ids of tick storage
Values == {"v"}             \* JSON values a set op writes
Absent == "absent"          \* no row under the key
Stored == "v0"              \* the value of a row written by an earlier tick

\* the tick in progress: tick t1 of run r1 of session s1; t0 is an earlier tick of r1
tickCtx == [sessionId |-> "s1", runId |-> "r1", tickId |-> "t1"]
ctxOf(clogId) == [clogId |-> clogId, sessionId |-> tickCtx.sessionId,
                  runId |-> tickCtx.runId, tickId |-> tickCtx.tickId]

\* primary keys of the ocean_storage_* tables
storageGlobal(clogId) == <<"global", clogId, Null, Null, Null>>
storageSession(clogId, sessionId) == <<"session", clogId, sessionId, Null, Null>>
storageRun(clogId, runId) == <<"run", clogId, runId, Null, Null>>
storageTick(clogId, runId, tickId, rowId) == <<"tick", clogId, runId, tickId, rowId>>

\* the keys rows can exist under: r1 is the one run of s1, t0 and t1 are its ticks
StorageKeys ==
  UNION {{storageGlobal(c), storageSession(c, "s1"), storageRun(c, "r1")}
         \cup {storageTick(c, "r1", t, x) : t \in TickIds, x \in RowIds} : c \in ClogIds}

\* runs.session_id of the runs that exist
sessionOf(runId) == "s1"

\* the database when the tick begins: beginTickEntity has inserted tick t1
storeWith(val) ==
  [sessions |-> {"s1"}, runs |-> {"r1"}, ticks |-> {<<"r1", "t0">>, <<"r1", "t1">>},
   rows |-> [k \in StorageKeys |-> val]]

\* StorageReadPlan; a plan of kind "bogus" is one the union type does not have
Plan(kind, sessionId, runId, tickId, rowIds) ==
  [kind |-> kind, sessionId |-> sessionId, runId |-> runId, tickId |-> tickId,
   rowIds |-> rowIds]
Plans ==
  {Plan("global", Null, Null, Null, {}), Plan("bogus", Null, Null, Null, {})}
  \cup {Plan("session", s, Null, Null, {}) : s \in SessionIds}
  \cup {Plan("run", Null, r, Null, {}) : r \in ScopeRunIds}
  \cup {Plan("tick_rows", Null, tk[1], tk[2], xs) : tk \in TickScopes, xs \in SUBSET RowIds}
  \cup {Plan("history_ticks_for_run", Null, r, Null, {}) : r \in ScopeRunIds}
PlanLists == UNION {[1 .. n -> Plans] : n \in 0 .. MaxPlans}

\* readTickHistoryForRun: the tick storage rows of every tick of the run, for the clog
readTickHistoryForRun(st, clogId, runId) ==
  {k \in DOMAIN st.rows : k[1] = "tick" /\ k[2] = clogId /\ k[3] = runId
                          /\ st.rows[k] # Absent}

\* storageReadScoped: the plans in order; a throw leaves the ledger as the
\* plans before it made it.  `seen` collects the keys the SELECTs addressed.
RECURSIVE readPlans(_, _, _, _, _)
readPlans(st, ctx, plans, i, acc) ==
  IF i > Len(plans) THEN acc
  ELSE LET plan == plans[i] IN
    IF plan.kind = "global" THEN
      readPlans(st, ctx, plans, i + 1,
                [acc EXCEPT !.ledger.global = TRUE,
                            !.seen = @ \cup {storageGlobal(ctx.clogId)}])
    ELSE IF plan.kind = "session" THEN
      IF plan.sessionId # ctx.sessionId THEN [acc EXCEPT !.code = "INVALID_SCOPE"]
      ELSE readPlans(st, ctx, plans, i + 1,
                     [acc EXCEPT !.ledger.session = @ \cup {plan.sessionId},
                                 !.seen = @ \cup {storageSession(ctx.clogId, plan.sessionId)}])
    ELSE IF plan.kind = "run" THEN
      IF plan.runId # ctx.runId THEN [acc EXCEPT !.code = "INVALID_SCOPE"]
      ELSE readPlans(st, ctx, plans, i + 1,
                     [acc EXCEPT !.ledger.run = @ \cup {plan.runId},
                                 !.seen = @ \cup {storageRun(ctx.clogId, plan.runId)}])
    ELSE IF plan.kind = "tick_rows" THEN
      IF plan.runId # ctx.runId \/ plan.tickId # ctx.tickId
      THEN [acc EXCEPT !.code = "INVALID_SCOPE"]
      ELSE readPlans(st, ctx, plans, i + 1,
                     [acc EXCEPT !.ledger.tickRows =
                                    @ \cup {<<plan.runId, plan.tickId, x>> : x \in plan.rowIds},
                                 !.seen = @ \cup {storageTick(ctx.clogId, plan.runId, plan.tickId, x)
                                                    : x \in plan.rowIds}])
    ELSE IF plan.kind = "history_ticks_for_run" THEN
      IF plan.runId # ctx.runId THEN [acc EXCEPT !.code = "INVALID_SCOPE"]
      ELSE readPlans(st, ctx, plans, i + 1,
                     [acc EXCEPT !.seen = @ \cup readTickHistoryForRun(st, ctx.clogId, plan.runId)])
    ELSE [acc EXCEPT !.code = "INVALID_SCOPE"]

\* faulty variant of storageReadScoped: a history plan records its run in the ledger
storageReadScopedHistoryRecords(st, ctx, plans, ledger) ==
  LET out == readPlans(st, ctx, plans, 1, [ledger |-> ledger, seen |-> {}, code |-> Null])
      history == {j \in DOMAIN plans : /\ plans[j].kind = "history_ticks_for_run"
                                        /\ plans[j].runId = ctx.runId}
  IN [out EXCEPT !.ledger.run = @ \cup {plans[j].runId : j \in history}]

storageReadScoped(st, ctx, plans, ledger) ==
  readPlans(st, ctx, plans, 1, [ledger |-> ledger, seen |-> {}, code |-> Null])

\* StorageWriteOp; an op of kind "bogus" is one the union type does not have
Op(op, sessionId, runId, tickId, rowId, value) ==
  [op |-> op, sessionId |-> sessionId, runId |-> runId, tickId |-> tickId,
   rowId |-> rowId, value |-> value]
Ops ==
  {Op("global.clear", Null, Null, Null, Null, Null), Op("bogus", Null, Null, Null, Null, Null)}
  \cup {Op("global.set", Null, Null, Null, Null, v) : v \in Values}
  \cup {Op("session.set", s, Null, Null, Null, v) : s \in SessionIds, v \in Values}
  \cup {Op(o, s, Null, Null, Null, Null) : o \in {"session.clear", "session.delete"}, s \in SessionIds}
  \cup {Op("run.set", Null, r, Null, Null, v) : r \in ScopeRunIds, v \in Values}
  \cup {Op(o, Null, r, Null, Null, Null) : o \in {"run.clear", "run.delete"}, r \in ScopeRunIds}
  \cup {Op("tick.set", Null, tk[1], tk[2], x, v) : tk \in TickScopes, x \in RowIds, v \in Values}
  \cup {Op("tick.del", Null, tk[1], tk[2], x, Null) : tk \in TickScopes, x \in RowIds}
  \cup {Op("tick.delete", Null, tk[1], tk[2], Null, Null) : tk \in TickScopes}
\* the ops the batches are drawn from: every op on the tick's own scope, one op
\* per way of leaving it, and the op of no known kind
BatchOps ==
  {op \in Ops : /\ op.sessionId \in {Null, tickCtx.sessionId}
                /\ op.runId \in {Null, tickCtx.runId}
                /\ op.tickId \in {Null, tickCtx.tickId}}
  \cup {Op("session.set", "s2", Null, Null, Null, "v"), Op("run.clear", Null, "r2", Null, Null, Null),
        Op("tick.del", Null, "r1", "t0", "x", Null), Op("tick.delete", Null, "r2", "t1", Null, Null)}
Batches == UNION {[1 .. n -> BatchOps] : n \in 0 .. MaxOps}

\* faulty variant of validateOp: the ledger is checked, the scope ids are not
validateOpLedgerOnly(ctx, ledger, op) ==
  IF op.op \in {"global.set", "global.clear"} THEN
    IF ledger.global THEN Null ELSE "RBW_VIOLATION"
  ELSE IF op.op \in {"session.set", "session.clear", "session.delete"} THEN
    IF op.sessionId \in ledger.session THEN Null ELSE "RBW_VIOLATION"
  ELSE IF op.op \in {"run.set", "run.clear", "run.delete"} THEN
    IF op.runId \in ledger.run THEN Null ELSE "RBW_VIOLATION"
  ELSE IF op.op \in {"tick.set", "tick.del"} THEN
    IF <<op.runId, op.tickId, op.rowId>> \in ledger.tickRows THEN Null ELSE "RBW_VIOLATION"
  ELSE IF op.op = "tick.delete" THEN
    IF ledger.tickRows # {} THEN Null ELSE "RBW_VIOLATION"
  ELSE "INVALID_SCOPE"

\* faulty variant of validateOp: a clear or a del needs no read
validateOpClearUnread(ctx, ledger, op) ==
  IF op.op \in {"global.clear", "session.clear", "run.clear", "tick.del"} THEN
    IF op.op = "session.clear" /\ op.sessionId # ctx.sessionId THEN "INVALID_SCOPE"
    ELSE IF op.op = "run.clear" /\ op.runId # ctx.runId THEN "INVALID_SCOPE"
    ELSE IF op.op = "tick.del" /\ ~(op.runId = ctx.runId /\ op.tickId = ctx.tickId)
      THEN "INVALID_SCOPE"
    ELSE Null
  ELSE IF op.op = "global.set" THEN
    IF ledger.global THEN Null ELSE "RBW_VIOLATION"
  ELSE IF op.op \in {"session.set", "session.delete"} THEN
    IF op.sessionId # ctx.sessionId THEN "INVALID_SCOPE"
    ELSE IF op.sessionId \in ledger.session THEN Null ELSE "RBW_VIOLATION"
  ELSE IF op.op \in {"run.set", "run.delete"} THEN
    IF op.runId # ctx.runId THEN "INVALID_SCOPE"
    ELSE IF op.runId \in ledger.run THEN Null ELSE "RBW_VIOLATION"
  ELSE IF op.op = "tick.set" THEN
    IF ~(op.runId = ctx.runId /\ op.tickId = ctx.tickId) THEN "INVALID_SCOPE"
    ELSE IF <<op.runId, op.tickId, op.rowId>> \in ledger.tickRows THEN Null
    ELSE "RBW_VIOLATION"
  ELSE IF op.op = "tick.delete" THEN
    IF ~(op.runId = ctx.runId /\ op.tickId = ctx.tickId) THEN "INVALID_SCOPE"
    ELSE IF ledger.tickRows # {} THEN Null ELSE "RBW_VIOLATION"
  ELSE "INVALID_SCOPE"

\* the validation pass of storageWriteScoped for one op: Null, or the code it throws
validateOp(ctx, ledger, op) ==
  IF op.op \in {"global.set", "global.clear"} THEN
    IF ledger.global THEN Null ELSE "RBW_VIOLATION"
  ELSE IF op.op \in {"session.set", "session.clear", "session.delete"} THEN
    IF op.sessionId # ctx.sessionId THEN "INVALID_SCOPE"
    ELSE IF op.sessionId \in ledger.session THEN Null ELSE "RBW_VIOLATION"
  ELSE IF op.op \in {"run.set", "run.clear", "run.delete"} THEN
    IF op.runId # ctx.runId THEN "INVALID_SCOPE"
    ELSE IF op.runId \in ledger.run THEN Null ELSE "RBW_VIOLATION"
  ELSE IF op.op \in {"tick.set", "tick.del"} THEN
    IF ~(op.runId = ctx.runId /\ op.tickId = ctx.tickId) THEN "INVALID_SCOPE"
    ELSE IF <<op.runId, op.tickId, op.rowId>> \in ledger.tickRows THEN Null
    ELSE "RBW_VIOLATION"
  ELSE IF op.op = "tick.delete" THEN
    IF ~(op.runId = ctx.runId /\ op.tickId = ctx.tickId) THEN "INVALID_SCOPE"
    ELSE IF ledger.tickRows # {} THEN Null ELSE "RBW_VIOLATION"
  ELSE "INVALID_SCOPE"

\* the first code the validation loop throws, Null when every op passes
RECURSIVE validateOps(_, _, _, _)
validateOps(ctx, ledger, ops, i) ==
  IF i > Len(ops) THEN Null
  ELSE IF validateOp(ctx, ledger, ops[i]) # Null THEN validateOp(ctx, ledger, ops[i])
  ELSE validateOps(ctx, ledger, ops, i + 1)

\* ON DELETE CASCADE: the rows that go with the ticks in `gone`
dropTicks(st, gone) ==
  [st EXCEPT !.ticks = @ \ gone,
             !.rows = [k \in DOMAIN @ |->
                         IF k[1] = "tick" /\ <<k[3], k[4]>> \in gone THEN Absent ELSE @[k]]]
\* faulty variant of dropRuns: ocean_storage_tick has no foreign key, so the
\* tick storage rows of a deleted run stay behind
dropRunsLeavesTickRows(st, gone) ==
  [st EXCEPT !.runs = @ \ gone,
             !.ticks = {tk \in @ : tk[1] \notin gone},
             !.rows = [k \in DOMAIN @ |->
                         IF k[1] = "run" /\ k[3] \in gone THEN Absent ELSE @[k]]]

\* deleteRunEntity: the run, its ticks, its run storage and its tick storage
dropRuns(st, gone) ==
  LET t == dropTicks(st, {tk \in st.ticks : tk[1] \in gone}) IN
  [t EXCEPT !.runs = @ \ gone,
            !.rows = [k \in DOMAIN @ |->
                        IF k[1] = "run" /\ k[3] \in gone THEN Absent ELSE @[k]]]
\* deleteSessionEntity: the session, its runs and what goes with them, its session storage
dropSession(st, sessionId) ==
  LET t == dropRuns(st, {r \in st.runs : sessionOf(r) = sessionId}) IN
  [t EXCEPT !.sessions = @ \ {sessionId},
            !.rows = [k \in DOMAIN @ |->
                        IF k[1] = "session" /\ k[3] = sessionId THEN Absent ELSE @[k]]]

\* one statement of the transaction: the store after it, or a foreign-key
\* failure when an upsert names a parent row an earlier op of the batch deleted
applyOp(st, ctx, op) ==
  LET put(k, v) == [ok |-> TRUE, st |-> [st EXCEPT !.rows[k] = v]]
      fails == [ok |-> FALSE, st |-> st]
  IN
  IF op.op = "global.set" THEN put(storageGlobal(ctx.clogId), op.value)
  ELSE IF op.op = "global.clear" THEN put(storageGlobal(ctx.clogId), Absent)
  ELSE IF op.op = "session.set" THEN
    IF op.sessionId \in st.sessions THEN put(storageSession(ctx.clogId, op.sessionId), op.value)
    ELSE fails
  ELSE IF op.op = "session.clear" THEN put(storageSession(ctx.clogId, op.sessionId), Absent)
  ELSE IF op.op = "run.set" THEN
    IF op.runId \in st.runs THEN put(storageRun(ctx.clogId, op.runId), op.value) ELSE fails
  ELSE IF op.op = "run.clear" THEN put(storageRun(ctx.clogId, op.runId), Absent)
  ELSE IF op.op = "tick.set" THEN
    IF <<op.runId, op.tickId>> \in st.ticks
    THEN put(storageTick(ctx.clogId, op.runId, op.tickId, op.rowId), op.value)
    ELSE fails
  ELSE IF op.op = "tick.del"
    THEN put(storageTick(ctx.clogId, op.runId, op.tickId, op.rowId), Absent)
  ELSE IF op.op = "session.delete" THEN [ok |-> TRUE, st |-> dropSession(st, op.sessionId)]
  ELSE IF op.op = "run.delete" THEN [ok |-> TRUE, st |-> dropRuns(st, {op.runId})]
  ELSE IF op.op = "tick.delete"
    THEN [ok |-> TRUE, st |-> dropTicks(st, {<<op.runId, op.tickId>>})]
  ELSE [ok |-> TRUE, st |-> st]

\* the body of db.transaction: the ops in order, `applied` counting them
RECURSIVE applyOps(_, _, _, _)
applyOps(st, ctx, ops, i) ==
  IF i > Len(ops) THEN [ok |-> TRUE, st |-> st, applied |-> Len(ops)]
  ELSE LET r == applyOp(st, ctx, ops[i]) IN
    IF r.ok THEN applyOps(r.st, ctx, ops, i + 1)
    ELSE [ok |-> FALSE, st |-> st, applied |-> i - 1]

\* faulty variant of storageWriteScoped: each op is validated and applied in
\* turn, outside any transaction
RECURSIVE validateAndApply(_, _, _, _, _)
validateAndApply(st, ctx, ops, ledger, i) ==
  IF i > Len(ops) THEN [code |-> Null, applied |-> Len(ops), st |-> st]
  ELSE IF validateOp(ctx, ledger, ops[i]) # Null
    THEN [code |-> validateOp(ctx, ledger, ops[i]), applied |-> 0, st |-> st]
  ELSE IF ~applyOp(st, ctx, ops[i]).ok
    THEN [code |-> "SQLITE_CONSTRAINT", applied |-> 0, st |-> st]
  ELSE validateAndApply(applyOp(st, ctx, ops[i]).st, ctx, ops, ledger, i + 1)
storageWriteScopedInterleaved(st, ctx, ops, ledger) == validateAndApply(st, ctx, ops, ledger, 1)

\* storageWriteScoped: validate every op, then one transaction; a statement
\* that fails rolls the transaction back and its error is thrown
storageWriteScoped(st, ctx, ops, ledger) ==
  LET bad == validateOps(ctx, ledger, ops, 1)
      tx == applyOps(st, ctx, ops, 1)
  IN
  IF bad # Null THEN [code |-> bad, applied |-> 0, st |-> st]
  ELSE IF ~tx.ok THEN [code |-> "SQLITE_CONSTRAINT", applied |-> 0, st |-> st]
  ELSE [code |-> Null, applied |-> tx.applied, st |-> tx.st]

(* ---------- the tool invoker (clogs/tool-runtime.ts, ocean.ts) -------- *)
\* registry.getHandler(clogId, method): both clogs register the endpoint "m"
Methods == {"m", "nope"}
getHandler(clogId, method) == clogId \in ClogIds /\ method = "m"

\* input.address of an ocean.clog.call: clog.<clogId>.<method>, or a string that
\* is no address
Addresses ==
  {<<"clog", c, m>> : c \in ClogIds \cup {"ghost"}, m \in Methods}
  \cup {<<"bad">>, <<"clog", "worker", "m", "x">>}
\* /^clog\.([^.]+)\./ of the invoker and /^clog\.([^.]+)\.([^.]+)$/ of toolClogCall
isAddress(address) == Len(address) = 3 /\ address[1] = "clog"

\* what a peer endpoint does with the call: it returns, it throws an error that
\* has a code, or it throws one that has none
EndpointOutcomes == {"return", "throw E_PEER", "throw"}

\* faulty variant of toolInvokerFactory: the new invoker starts with a ledger that
\* already holds the global row
toolInvokerFactoryInherits(clogId) ==
  [tickCtx |-> ctxOf(clogId), readCalled |-> FALSE, writeCalled |-> FALSE,
   ledger |-> [emptyLedger EXCEPT !.global = TRUE]]
\* factory(clogId) of toolInvokerFactoryForTickSync: new flags, new ledger
toolInvokerFactory(clogId) ==
  [tickCtx |-> ctxOf(clogId), readCalled |-> FALSE, writeCalled |-> FALSE,
   ledger |-> emptyLedger]

\* faulty variant of catchError: the error leaves the invoker as a rejection
catchErrorRethrows(k, name, code) ==
  [NoToolResult EXCEPT !.inv = k, !.name = name, !.threw = TRUE, !.ok = FALSE, !.code = code]
\* the catch clause of the invoker: {ok: false, error: {code: e?.code ?? "OCEAN_TOOL_ERROR"}}
catchError(k, name, code) ==
  [NoToolResult EXCEPT !.inv = k, !.name = name, !.ok = FALSE,
                       !.code = IF code = Undefined THEN "OCEAN_TOOL_ERROR" ELSE code]
\* return {ok: true, output}
okResult(k, name) == [NoToolResult EXCEPT !.inv = k, !.name = name]

bump(clogId, field) ==
  tally' = [tally EXCEPT ![clogId][field] = @ + 1]

\* the budget check of read_scoped: the code it throws, or Null
readBudget(inv) == IF inv.readCalled THEN "STORAGE_READ_ALREADY_CALLED" ELSE Null

\* faulty variant of writeBudget: writeCalled is not looked at
writeBudgetUnmetered(inv) == IF ~inv.readCalled THEN "STORAGE_WRITE_BEFORE_READ" ELSE Null
\* the budget checks of write_scoped: the code they throw, or Null
writeBudget(inv) ==
  IF ~inv.readCalled THEN "STORAGE_WRITE_BEFORE_READ"
  ELSE IF inv.writeCalled THEN "STORAGE_WRITE_ALREADY_CALLED"
  ELSE Null

\* what the plans of a read_scoped input name, history plans left out
namedBy(plans) ==
  LET of(kind) == {plans[j] : j \in {j \in DOMAIN plans : plans[j].kind = kind}} IN
  [global |-> of("global") # {},
   session |-> {p.sessionId : p \in of("session")},
   run |-> {p.runId : p \in of("run")},
   tickRows |-> UNION {{<<p.runId, p.tickId, x>> : x \in p.rowIds} : p \in of("tick_rows")}]

\* faulty variant of ReadScoped: readCalled is set only when the read succeeds
ReadScopedRefunds(k, lists) ==
  LET inv == invokers[k]
      name == "ocean.storage.read_scoped"
  IN
  /\ IF readBudget(inv) # Null THEN
       /\ toolResult' = catchError(k, name, readBudget(inv))
       /\ UNCHANGED <<invokers, tally>>
     ELSE \E plans \in lists :
       LET out == storageReadScoped(store, inv.tickCtx, plans, inv.ledger) IN
       /\ invokers' = [invokers EXCEPT ![k].readCalled = (out.code = Null),
                                       ![k].ledger = out.ledger]
       /\ IF out.code # Null
          THEN toolResult' = catchError(k, name, out.code) /\ UNCHANGED tally
          ELSE /\ toolResult' = [okResult(k, name) EXCEPT
                                   !.kinds = {plans[j].kind : j \in DOMAIN plans},
                                   !.named = namedBy(plans),
                                   !.seen = out.seen]
               /\ bump(inv.tickCtx.clogId, "reads")
  /\ UNCHANGED <<now, runs, pc, run, outcome, fresh, result, cron, hist, store, evs, lost>>

\* tools({name: "ocean.storage.read_scoped", input: {plans}}) on invoker k
ReadScoped(k, lists) ==
  LET inv == invokers[k]
      name == "ocean.storage.read_scoped"
  IN
  /\ IF readBudget(inv) # Null THEN
       /\ toolResult' = catchError(k, name, readBudget(inv))
       /\ UNCHANGED <<invokers, tally>>
     ELSE \E plans \in lists :
       LET out == storageReadScoped(store, inv.tickCtx, plans, inv.ledger) IN
       /\ invokers' = [invokers EXCEPT ![k].readCalled = TRUE, ![k].ledger = out.ledger]
       /\ IF out.code # Null
          THEN toolResult' = catchError(k, name, out.code) /\ UNCHANGED tally
          ELSE /\ toolResult' = [okResult(k, name) EXCEPT
                                   !.kinds = {plans[j].kind : j \in DOMAIN plans},
                                   !.named = namedBy(plans),
                                   !.seen = out.seen]
               /\ bump(inv.tickCtx.clogId, "reads")
  /\ UNCHANGED <<now, runs, pc, run, outcome, fresh, result, cron, hist, store, evs, lost>>

\* tools({name: "ocean.storage.write_scoped", input: {ops}}) on invoker k
WriteScoped(k, batches) ==
  LET inv == invokers[k]
      name == "ocean.storage.write_scoped"
  IN
  /\ IF writeBudget(inv) # Null THEN
       /\ toolResult' = catchError(k, name, writeBudget(inv))
       /\ UNCHANGED <<invokers, store, tally>>
     ELSE \E ops \in batches :
       LET out == storageWriteScoped(store, inv.tickCtx, ops, inv.ledger) IN
       /\ invokers' = [invokers EXCEPT ![k].writeCalled = TRUE]
       /\ store' = out.st
       /\ IF out.code # Null
          THEN toolResult' = catchError(k, name, out.code) /\ UNCHANGED tally
          ELSE /\ toolResult' = [okResult(k, name) EXCEPT
                                   !.applied = out.applied,
                                   !.ops = ops]
               /\ bump(inv.tickCtx.clogId, "writes")
  /\ UNCHANGED <<now, runs, pc, run, outcome, fresh, result, cron, hist, evs, lost>>

\* tools({name: "ocean.clog.call", input: {address, payload}}) on invoker k: the
\* callee's invoker is made before toolClogCall looks the endpoint up, and the
\* endpoint is the only one who ever gets it
ClogCall(k) ==
  \E address \in Addresses, does \in EndpointOutcomes :
    LET name == "ocean.clog.call" IN
    /\ Len(invokers) < MaxInvokers
    /\ IF ~isAddress(address) \/ ~getHandler(address[2], address[3]) THEN
         /\ toolResult' = [catchError(k, name, "UNKNOWN_ENDPOINT") EXCEPT !.address = address]
         /\ UNCHANGED invokers
       ELSE
         /\ invokers' = Append(invokers, toolInvokerFactory(address[2]))
         /\ toolResult' =
              [(IF does = "return" THEN okResult(k, name)
                ELSE IF does = "throw E_PEER" THEN catchError(k, name, "E_PEER")
                ELSE catchError(k, name, Undefined)) EXCEPT !.address = address,
                                                             !.endpoint = does]
    /\ UNCHANGED <<now, runs, pc, run, outcome, fresh, result, cron, hist, store, tally, evs, lost>>

\* tools({name}) with a name the invoker has no branch for
UnknownTool(k) ==
  /\ toolResult' = catchError(k, "ocean.bogus", "UNKNOWN_TOOL")
  /\ UNCHANGED <<now, runs, pc, run, outcome, fresh, result, cron, hist, invokers, store,
                 tally, evs, lost>>

\* instance A has begun tick t1 of run r1 at time t and the handler of "worker"
\* holds tools = factory(run.clog_id)
TickBegun(t) ==
  LET row == acquireRow(createRunRow("worker", "a", <<>>, t), "A", LockMs, t) IN
  /\ now = t
  /\ runs = consumePendingInput("r1" :> row, "r1")
  /\ pc = [i \in Instances |-> IF i = "A" THEN "handler" ELSE "idle"]
  /\ run = [i \in Instances |-> IF i = "A" THEN RunRow("r1", row) ELSE NoRun]
  /\ outcome = [i \in Instances |-> NoOutcome]
  /\ fresh = [i \in Instances |-> FALSE]
  /\ result = [i \in Instances |-> NoResult]
  /\ cron = NoCron
  /\ pendingSig = [r \in RunIds |-> NoSig]
  /\ retryOf = [r \in RunIds |-> NoRetry]
  /\ only = [r \in RunIds |-> Disqualified]
  /\ createdWith = [r \in RunIds |-> NoCreate]
  /\ invokers = <<toolInvokerFactory("worker")>>
  /\ toolResult = NoToolResult
  /\ tally = [c \in ClogIds |-> [reads |-> 0, writes |-> 0]]
  /\ lost = NoLost

\* the tick begins at time 0; earlier ticks have left rows, or none; the event
\* log is not in use
InitTick ==
  /\ TickBegun(0)
  /\ store \in {storeWith(Absent), storeWith(Stored)}
  /\ NoEvents

\* the tool calls the handler of one tick makes on the invoker it was given
NextStorage ==
  \/ ReadScoped(1, PlanLists)
  \/ WriteScoped(1, Batches)
  \/ UnknownTool(1)

SpecStorage == InitTick /\ [][NextStorage]_vars

\* what the handler and the endpoints of a peer call read and write: one singleton
\* each, or the session row of another session
PeerPlanLists ==
  {<<Plan("global", Null, Null, Null, {})>>, <<Plan("run", Null, "r1", Null, {})>>,
   <<Plan("session", "s2", Null, Null, {})>>}
PeerBatches ==
  {<<Op("global.set", Null, Null, Null, Null, "v")>>, <<Op("run.set", Null, "r1", Null, Null, "v")>>}

\* the tool calls of one tick: those of the handler and those of the endpoints
\* its ocean.clog.call calls reach, each on the invoker it was given
NextPeer ==
  \E k \in DOMAIN invokers :
     \/ ReadScoped(k, PeerPlanLists)
     \/ WriteScoped(k, PeerBatches)
     \/ ClogCall(k)
     \/ UnknownTool(k)

SpecPeer == InitTick /\ [][NextPeer]_vars

(* ---------------------- the event log (engine/events.ts) -------------- *)
MaxEvents == 3              \* events emitted in one behaviour
MaxLimit == 2               \* largest `limit` a readEvents call is given
MaxGcClockSteps == 2        \* the clock of the event log takes GcEpoch + 0 .. MaxGcClockSteps steps

GcMinIntervalDefault == 60000               \* opts.eventsGcMinIntervalMs ?? 60_000
GcStep == GcMinIntervalDefault \div 2       \* granularity of the clock of the event log
GcEpoch == 2 * GcMinIntervalDefault         \* nowMs() when the log is first used

\* EventScope of emitEvent: global, a run without sessionId, a tick with sessionId
EventScopes ==
  {[kind |-> "global", sessionId |-> Undefined, runId |-> Undefined, tickId |-> Undefined],
   [kind |-> "run", sessionId |-> Undefined, runId |-> "r1", tickId |-> Undefined],
   [kind |-> "tick", sessionId |-> "s1", runId |-> "r1", tickId |-> "t1"]}
\* ReadEventsScope of readEvents
ReadEventsScopes ==
  {[kind |-> "global", id |-> Null], [kind |-> "session", id |-> "s1"],
   [kind |-> "run", id |-> "r1"]}

\* faulty variant of nextSeq: a plain rowid, one more than the largest seq stored
nextSeqRowid(rows, seqTable) ==
  IF rows = {} THEN 1
  ELSE (CHOOSE e \in rows : \A f \in rows : f.seq <= e.seq).seq + 1
\* seq INTEGER PRIMARY KEY AUTOINCREMENT: one more than the largest seq ever assigned
nextSeq(rows, seqTable) == seqTable + 1

\* emitEvent: the row inserted
emitEvent(rows, seqTable, scope, t) ==
  [seq |-> nextSeq(rows, seqTable),
   ts |-> t,
   scope_kind |-> scope.kind,
   session_id |-> IF scope.kind = "session" THEN scope.sessionId
                  ELSE IF scope.kind \in {"run", "tick"} THEN Nullish(scope.sessionId)
                  ELSE Null,
   run_id |-> IF scope.kind \in {"run", "tick"} THEN scope.runId ELSE Null,
   tick_id |-> IF scope.kind = "tick" THEN scope.tickId ELSE Null]

\* the WHERE clause of readEventsByScope
selected(e, scope, afterSeq) ==
  /\ e.seq > afterSeq
  /\ scope.kind = "global" => e.scope_kind = "global"
  /\ scope.kind = "session" => e.session_id = scope.id
  /\ scope.kind = "run" => e.run_id = scope.id

\* ORDER BY seq ASC LIMIT limit, as the list of the rows
RECURSIVE orderedLimit(_, _)
orderedLimit(rows, limit) ==
  IF rows = {} \/ limit <= 0 THEN <<>>
  ELSE LET first == CHOOSE e \in rows : \A f \in rows : e.seq <= f.seq IN
       <<first>> \o orderedLimit(rows \ {first}, limit - 1)

\* readEventsByScope
readEventsByScope(rows, scope, afterSeq, limit) ==
  orderedLimit({e \in rows : selected(e, scope, afterSeq)}, limit)

\* faulty variant of gcEventsByTtl: `<=` where the statement has `<`
gcEventsByTtlInclusive(rows, ttlMs, t) == {e \in rows : ~(e.ts <= t - ttlMs)}
\* gcEventsByTtl: DELETE FROM events WHERE ts < nowMs() - ttlMs; the rows left
gcEventsByTtl(rows, ttlMs, t) == {e \in rows : ~(e.ts < t - ttlMs)}

\* tools({name: "ocean.events.emit", input: {scope, type, payload}}) on invoker k
EmitTool(k, scopes) ==
  \E scope \in scopes :
    /\ sqliteSeq < MaxEvents
    /\ LET e == emitEvent(events, sqliteSeq, scope, now) IN
         /\ events' = events \cup {e}
         /\ sqliteSeq' = IF e.seq > sqliteSeq THEN e.seq ELSE sqliteSeq
    /\ toolResult' = okResult(k, "ocean.events.emit")
    /\ UNCHANGED <<now, runs, pc, run, outcome, fresh, result, cron, hist, invokers, store,
                   tally, gc, reader, lost>>

\* the client calls ocean.readEvents({scope, afterSeq, limit}) with the seq of the
\* last event it has received
ReadEvents ==
  \E limit \in 1 .. MaxLimit :
    LET page == readEventsByScope(events, reader.scope, reader.afterSeq, limit) IN
    /\ reader' = [reader EXCEPT
                    !.got = @ \o page,
                    !.afterSeq = IF page = <<>> THEN @ ELSE page[Len(page)].seq]
    /\ UNCHANGED <<now, runs, pc, run, outcome, fresh, result, cron, hist, tools, events,
                   sqliteSeq, gc, lost>>

\* ocean.gcEventsIfDue()
GcEventsIfDue ==
  LET ttl == IF gc.ttl = <<>> THEN 0 ELSE gc.ttl[1]
      minInterval == IF gc.minInterval = <<>> THEN GcMinIntervalDefault ELSE gc.minInterval[1]
  IN
  /\ IF ttl = 0 \/ now - gc.lastGcTs < minInterval
     THEN UNCHANGED <<gc, events>>
     ELSE /\ gc' = [gc EXCEPT !.lastGcTs = now, !.sweeps = @ + 1, !.sweptAt = now]
          /\ events' = gcEventsByTtl(events, ttl, now)
  /\ UNCHANGED <<now, runs, pc, run, outcome, fresh, result, cron, hist, tools, sqliteSeq,
                 reader, lost>>

\* time passes
GcClockStep ==
  /\ now < GcEpoch + MaxGcClockSteps * GcStep
  /\ now' = now + GcStep
  /\ UNCHANGED <<runs, pc, run, outcome, fresh, result, cron, hist, tools, evs, lost>>

\* the event log is empty, the clock stands at GcEpoch
EventsBegun ==
  /\ TickBegun(GcEpoch)
  /\ store = storeWith(Absent)
  /\ events = {}
  /\ sqliteSeq = 0

\* a tick whose handler emits events, an ocean that sweeps events older than one
\* clock step, at most once per clock step, and a client that pages through one
\* scope
InitEvents ==
  /\ EventsBegun
  /\ gc = [NoGc EXCEPT !.ttl = <<GcStep>>, !.minInterval = <<GcStep>>]
  /\ \E scope \in ReadEventsScopes : reader = [NoReader EXCEPT !.scope = scope]

NextEvents ==
  \/ EmitTool(1, EventScopes)
  \/ ReadEvents
  \/ GcEventsIfDue
  \/ GcClockStep

SpecEvents == InitEvents /\ [][NextEvents]_vars

\* an ocean with or without eventsTtlMs and eventsGcMinIntervalMs, whose
\* gcEventsIfDue is called at any time while events are emitted; nobody reads
InitGc ==
  /\ EventsBegun
  /\ \E ttl \in {<<>>, <<GcStep>>}, minInterval \in {<<>>, <<GcStep>>} :
       gc = [NoGc EXCEPT !.ttl = ttl, !.minInterval = minInterval]
  /\ reader = NoReader

NextGc ==
  \/ EmitTool(1, {scope \in EventScopes : scope.kind = "global"})
  \/ GcEventsIfDue
  \/ GcClockStep

SpecGc == InitGc /\ [][NextGc]_vars

(* ------------- entity deletes and the foreign keys (db/schema.ts) ----- *)
\* the reads that open the tick's scopes to a delete
CascadePlanLists ==
  {<<Plan("global", Null, Null, Null, {}), Plan("session", "s1", Null, Null, {})>>,
   <<Plan("session", "s1", Null, Null, {}), Plan("run", Null, "r1", Null, {})>>,
   <<Plan("run", Null, "r1", Null, {}), Plan("tick_rows", Null, "r1", "t1", {"x"})>>}
\* the batches the handler writes: entity deletes, alone, next to an
\* op on the global row, or followed by an upsert under the parent just deleted
CascadeBatches ==
  {<<Op("session.delete", "s1", Null, Null, Null, Null)>>,
   <<Op("run.delete", Null, "r1", Null, Null, Null)>>,
   <<Op("tick.delete", Null, "r1", "t1", Null, Null)>>,
   <<Op("tick.delete", Null, "r1", "t1", Null, Null), Op("run.delete", Null, "r1", Null, Null, Null)>>,
   <<Op("session.delete", "s1", Null, Null, Null, Null), Op("global.clear", Null, Null, Null, Null, Null)>>,
   <<Op("session.delete", "s1", Null, Null, Null, Null), Op("session.set", "s1", Null, Null, Null, "v")>>,
   <<Op("run.delete", Null, "r1", Null, Null, Null), Op("run.set", Null, "r1", Null, Null, "v")>>,
   <<Op("tick.delete", Null, "r1", "t1", Null, Null), Op("tick.set", Null, "r1", "t1", "x", "v")>>}

\* a tick over a database that holds rows of earlier ticks, or none, and an
\* empty event log
InitCascade ==
  /\ TickBegun(0)
  /\ store \in {storeWith(Absent), storeWith(Stored)}
  /\ NoEvents

\* the tool calls of one tick: the handler reads, deletes entities and emits
\* events
NextCascade ==
  \/ ReadScoped(1, CascadePlanLists)
  \/ WriteScoped(1, CascadeBatches)
  \/ EmitTool(1, EventScopes)

SpecCascade == InitCascade /\ [][NextCascade]_vars

(* ------------------------- reading a step ----------------------------- *)
\* advance() of instance i gets a row from acquireRun in this step
Acquires(i) == pc[i] = "idle" /\ pc'[i] \in {"consume", "dispatch"}

\* advance() of instance i gets null from acquireRun in this step
ReturnsNone(i) == pc[i] = "idle" /\ pc'[i] = "returned"

\* the releaseRun that follows applyOutcome's getRun
ReleasesAfterRead(i) == pc[i] = "release" /\ pc'[i] = "returned"

\* ocean.signal(r, x) commits in this step; x is then pendingSig'[r]
SignalStep(r) ==
  /\ pc' = pc /\ now' = now
  /\ r \in DOMAIN runs /\ r \in DOMAIN runs'
  /\ (runs'[r] # runs[r] \/ pendingSig'[r] # pendingSig[r])

\* spec: a lock is valid while lockedBy is not null and lockExpiresAt > now
ValidLock(row, t) == row.locked_by # Null /\ row.lock_expires_at > t

Unlocked(row) == row.locked_by = Null /\ row.lock_expires_at = NullTs

(* ------------------------------ C1 ------------------------------------ *)
\* C1: mutual exclusion of acquire. An advance() acquires a run only when no
\* instance holds a valid (unexpired, unreleased) lock on it, so of the callers
\* racing for one pending run one wins and the others lose while the winner's
\* lock stands; and an advance() returns advanced=0 only when every pending run
\* is validly locked, so one of the racing callers does win.
C1_MutualExclusion ==
  [][\A i \in Instances :
       /\ Acquires(i) => ~ValidLock(runs[run'[i].run_id], now)
       /\ ReturnsNone(i) =>
            /\ result'[i].advanced = 0
            /\ \A r \in DOMAIN runs :
                 runs[r].status = "pending" => ValidLock(runs[r], now)]_vars

\* a pending run validly locked by a tick in flight while another advance()
\* has returned advanced=0
C1_Witness ==
  \E i, j \in Instances :
    /\ i # j
    /\ pc[i] \in InFlight /\ run[i].run_id \in DOMAIN runs
    /\ runs[run[i].run_id].status = "pending"
    /\ runs[run[i].run_id].locked_by = i
    /\ ValidLock(runs[run[i].run_id], now)
    /\ pc[j] = "returned" /\ result[j].advanced = 0

(* ------------------------------ C2 ------------------------------------ *)
\* C2: terminal states are absorbing. Once a run's status is done or failed no
\* step of any instance (signal, advance, outcome application) changes it.
C2_TerminalAbsorbing ==
  [][\A r \in DOMAIN runs :
       runs[r].status \in Terminal /\ r \in DOMAIN runs'
         => runs'[r].status = runs[r].status]_vars

(* ------------------------------ C3 ------------------------------------ *)
\* C3: no signal is lost around a tick in flight. When signal(r, x) has committed
\* since the tick consumed its input and the tick then releases with a
\* non-terminal outcome (ok, continue, wait, non-exhausted retry), the release
\* leaves status = pending with pendingInput = x.
C3_NoSignalLost ==
  [][\A i \in Instances :
       ReleasesAfterRead(i) /\ pendingSig[run[i].run_id] \in Inputs
         => /\ runs'[run[i].run_id].status = "pending"
            /\ runs'[run[i].run_id].pending_input = pendingSig[run[i].run_id]]_vars

(* ------------------------------ C4 ------------------------------------ *)
\* C4: in every reachable state and for every run, lockedBy is null if and only
\* if lockExpiresAt is null.
C4_LockFieldsTogether ==
  \A r \in DOMAIN runs :
    (runs[r].locked_by = Null) <=> (runs[r].lock_expires_at = NullTs)

\* one tick has acquired and released the run (a retry left it waiting) and a
\* second tick holds it now
C4_Witness ==
  \E r \in DOMAIN runs :
    /\ runs[r].attempt >= 1
    /\ runs[r].locked_by # Null
    /\ runs[r].lock_expires_at # NullTs

(* ------------------------------ C5 ------------------------------------ *)
\* C5: a signal supersedes a non-terminal outcome. If signal(r, x) committed
\* after the tick consumed its input and before the handler returned, then for
\* ok, continue, wait and non-exhausted retry applyOutcome sees the signal when
\* it reads the row, and its release leaves status = pending, attempt = 0,
\* wakeAt = null, lastError = null, the lock cleared and pendingInput = x.
C5_SignalSupersedes ==
  [][\A i \in Instances :
       /\ pc[i] = "handler" /\ pc'[i] = "release" /\ pendingSig[run[i].run_id] # NoSig
            => fresh'[i]
       /\ ReleasesAfterRead(i) /\ fresh[i]
            => LET r == run[i].run_id IN
                 /\ runs'[r].status = "pending"
                 /\ runs'[r].attempt = 0
                 /\ runs'[r].wake_at = NullTs
                 /\ runs'[r].last_error = Null
                 /\ Unlocked(runs'[r])
                 /\ runs'[r].pending_input = pendingSig[r]]_vars

C7_ExhaustionStep ==
  \A i \in Instances :
    /\ pc[i] = "handler" /\ pc'[i] = "returned" /\ result'[i].outcome = "retry"
         => LET r == run[i].run_id IN
              /\ run[i].attempt + 1 >= run[i].max_attempts
              /\ runs'[r].status = "failed"
              /\ runs'[r].attempt = run[i].attempt + 1
              /\ runs'[r].last_error \in Errors \cup Messages
              /\ runs'[r].wake_at = NullTs
              /\ runs'[r].pending_input = Null
              /\ Unlocked(runs'[r])
    /\ ReleasesAfterRead(i) /\ outcome[i].status = "retry"
         => /\ run[i].attempt + 1 < run[i].max_attempts
            /\ runs'[run[i].run_id].status # "failed"

C7_DispatchCount ==
  \A r \in DOMAIN runs :
    only[r].ok =>
      /\ only[r].n <= runs[r].max_attempts
      /\ runs[r].status = "failed" <=>
           (only[r].n = runs[r].max_attempts /\ runs[r].locked_by = Null)
      /\ runs[r].status = "failed" => runs[r].attempt = runs[r].max_attempts

C7_RetryExhaustion == []C7_DispatchCount /\ [][C7_ExhaustionStep]_vars

\* a run created with maxAttempts = 2 whose handler returned retry twice, with
\* no signal, is failed after exactly two dispatches
C7_Witness ==
  \E r \in DOMAIN runs :
    /\ runs[r].status = "failed"
    /\ runs[r].max_attempts = 2
    /\ runs[r].attempt = 2
    /\ only[r].ok /\ only[r].n = 2

(* ------------------------------ C8 ------------------------------------ *)
\* the run is locked by a tick in flight
C8_LockedInFlight(r) ==
  \E i \in Instances :
    pc[i] \in InFlight /\ run[i].run_id = r /\ runs[r].locked_by = i

C10_Eligibility(row, t) ==
  /\ \/ row.status = "pending"
     \/ row.status = "waiting" /\ row.wake_at # NullTs /\ row.wake_at <= t
  /\ \/ row.locked_by = Null
     \/ row.lock_expires_at # NullTs /\ row.lock_expires_at <= t

C11_PlainRelease ==
  [][\A i \in Instances :
       ReleasesAfterRead(i) /\ outcome[i].status \in {"ok", "continue", "wait"}
          /\ pendingSig[run[i].run_id] = NoSig
         => LET r == run[i].run_id
                o == outcome[i]
            IN runs'[r] =
                 [runs[r] EXCEPT
                    !.status = CASE o.status = "ok" -> "idle"
                                 [] o.status = "continue" -> "pending"
                                 [] o.status = "wait" -> "waiting",
                    !.pending_input = IF o.status = "continue" /\ o.input # Undefined
                                      THEN o.input ELSE Null,
                    !.wake_at = IF o.status = "wait" THEN o.wakeAt ELSE NullTs,
                    !.attempt = 0,
                    !.last_error = Null,
                    !.locked_by = Null,
                    !.lock_expires_at = NullTs]]_vars

\* a run that a retry had left with attempt 1 and an error has been released by
\* a later tick without a signal: it is idle or waiting with attempt 0 and no
\* error, and the advance() that did it has just returned
C11_Witness ==
  \E i \in Instances, r \in DOMAIN runs :
    /\ pc[i] = "returned" /\ result[i].runId = r
    /\ result[i].outcome \in {"ok", "wait"}
    /\ pendingSig[r] = NoSig
    /\ now >= 2000
    /\ runs[r].status \in {"idle", "waiting"}
    /\ runs[r].attempt = 0 /\ runs[r].last_error = Null
    /\ Unlocked(runs[r])

(* ------------------------------ C12 ----------------------------------- *)
\* C12: terminal outcomes ignore signals. A done outcome releases to status =
\* done, attempt = 0, lastError = null; a failed outcome releases to status =
\* failed, lastError = error, attempt as it was, whatever maxAttempts allows; in
\* both wakeAt = null, pendingInput = null and the lock is cleared, whether or
\* not a signal arrived during the tick.
C12_TerminalOutcome ==
  [][\A i \in Instances :
       pc[i] = "handler" /\ pc'[i] = "returned"
          /\ result'[i].outcome \in Terminal
         => LET r == run[i].run_id IN
              runs'[r] =
                [runs[r] EXCEPT
                   !.status = result'[i].outcome,
                   !.attempt = IF result'[i].outcome = "done" THEN 0 ELSE @,
                   !.last_error = IF result'[i].outcome = "done" THEN Null
                                  ELSE CHOOSE e \in Errors : TRUE,
                   !.wake_at = NullTs,
                   !.pending_input = Null,
                   !.locked_by = Null,
                   !.lock_expires_at = NullTs]]_vars

\* a handler returned failed on a run that had attempts left, after a retry and
\* with a signal committed during the tick: the run is failed, its attempt is
\* the one the retry left and the signal's payload is gone
C12_Witness ==
  \E i \in Instances, r \in DOMAIN runs :
    /\ pc[i] = "returned" /\ result[i].runId = r /\ result[i].outcome = "failed"
    /\ runs[r].status = "failed"
    /\ runs[r].attempt >= 1
    /\ runs[r].attempt + 1 < runs[r].max_attempts
    /\ pendingSig[r] \in Inputs
    /\ runs[r].pending_input = Null

(* ------------------------------ C16 ----------------------------------- *)
\* C16: createRun creates a run with attempt = 0, lockedBy = null,
\* lockExpiresAt = null, wakeAt = null, lastError = null and maxAttempts = 3
\* unless retry.maxAttempts is given; with input undefined status = idle and
\* pendingInput = null, with any supplied input, null included, status =
\* pending and pendingInput = input.
C16_CreateRunDefaults ==
  \A r \in DOMAIN runs :
    createdWith[r].set =>
      LET a == createdWith[r] IN
        /\ runs[r].attempt = 0
        /\ runs[r].locked_by = Null /\ runs[r].lock_expires_at = NullTs
        /\ runs[r].wake_at = NullTs
        /\ runs[r].last_error = Null
        /\ runs[r].max_attempts = IF a.maxAttempts = <<>> THEN 3 ELSE a.maxAttempts[1]
        /\ a.input = Undefined => runs[r].status = "idle" /\ runs[r].pending_input = Null
        /\ a.input # Undefined => runs[r].status = "pending" /\ runs[r].pending_input = a.input

\* a run created with input null and retry omitted: pending, pendingInput null,
\* maxAttempts 3
C16_Witness ==
  \E r \in DOMAIN runs :
    /\ createdWith[r].set
    /\ createdWith[r].input = Null /\ createdWith[r].maxAttempts = <<>>
    /\ runs[r].status = "pending" /\ runs[r].pending_input = Null
    /\ runs[r].max_attempts = 3

C19_NoHandler ==
  [][\A i \in Instances :
       LET r == run[i].run_id IN
         pc[i] = "dispatch" /\ run[i].clog_id = "no-advance"
           => /\ pc'[i] # "handler"
              /\ pc'[i] = "returned"
                   => /\ runs'[r] = [runs[r] EXCEPT
                                       !.status = "failed",
                                       !.last_error = "no onAdvance handler",
                                       !.locked_by = Null,
                                       !.lock_expires_at = NullTs]
                      /\ result'[i] = [advanced |-> 1, runId |-> r,
                                       outcome |-> "failed"]]_vars

\* advance() has returned failed for a run of the clog without a handler
C19_Witness ==
  \E i \in Instances, r \in DOMAIN runs :
    /\ pc[i] = "returned"
    /\ result[i] = [advanced |-> 1, runId |-> r, outcome |-> "failed"]
    /\ runs[r].clog_id = "no-advance"
    /\ runs[r].status = "failed"
    /\ runs[r].last_error = "no onAdvance handler"
    /\ Unlocked(runs[r])

(* ------------------------------ C14 ----------------------------------- *)
\* instance i releases run r in this step through applyOutcome
C14_OutcomeRelease(i, r) ==
  /\ pc[i] \in {"handler", "release"}
  /\ pc'[i] = "returned"
  /\ run[i].run_id = r

\* C14: attempt is written by outcome application only. A retry outcome,
\* returned or thrown, writes the attempt the tick was acquired with plus one
\* (one more than the row holds while the tick still owns the lock), or 0 when
\* a signal superseded it; ok, done, continue and wait write 0; a failed
\* outcome leaves it. Every step that changes the attempt of an existing run is
\* such a release: signal, acquire, consumePendingInput, the release for a
\* missing handler, a crash and the clock never change it.
C14_AttemptWrites ==
  [][\A r \in DOMAIN runs \cap DOMAIN runs' :
       /\ runs'[r].attempt # runs[r].attempt
            => \E i \in Instances :
                 C14_OutcomeRelease(i, r) /\ result'[i].outcome # "failed"
       /\ \A i \in Instances :
            C14_OutcomeRelease(i, r)
              => /\ result'[i].outcome = "retry"
                      => /\ \/ runs'[r].attempt = run[i].attempt + 1
                            \/ fresh[i] /\ runs'[r].attempt = 0
                         /\ runs[r].locked_by = i /\ ~fresh[i]
                              => runs'[r].attempt = runs[r].attempt + 1
                 /\ result'[i].outcome \in {"ok", "done", "continue", "wait"}
                      => runs'[r].attempt = 0
                 /\ result'[i].outcome = "failed"
                      => runs'[r].attempt = runs[r].attempt]_vars

\* a retry superseded by a signal: advance() returned retry and the run is
\* pending with attempt 0 and no lastError
C14_Witness ==
  \E i \in Instances, r \in DOMAIN runs :
    /\ pc[i] = "returned"
    /\ result[i] = [advanced |-> 1, runId |-> r, outcome |-> "retry"]
    /\ runs[r].status = "pending"
    /\ runs[r].attempt = 0
    /\ runs[r].last_error = Null
    /\ runs[r].pending_input \in Inputs

(* ------------------------------ C13 ----------------------------------- *)
\* a run a retry sent into backoff and a signal made pending before wakeAt:
\* only a retry release leaves attempt >= 1 with a wakeAt, only a signal makes
\* such a row pending
C13_SignalledInBackoff(row, t) ==
  /\ row.status = "pending"
  /\ row.attempt >= 1
  /\ row.wake_at # NullTs /\ row.wake_at > t

C17_Table(n) ==
  CASE n = 1 -> 2000 [] n = 2 -> 4000 [] n = 3 -> 8000
    [] n = 4 -> 16000 [] n = 5 -> 32000 [] OTHER -> 60000

\* C17: backoff(1) = 2000, backoff(2) = 4000, backoff(n) = min(1000 * 2^n,
\* 60000) for every attempt number n >= 1, non-decreasing in n and never above
\* 60000; and the release of a retry that is neither exhausted nor superseded
\* by a signal writes wakeAt = clock at the release + backoff(attempt + 1).
C17_Backoff ==
  /\ [](/\ backoffMs(1) = 2000
        /\ backoffMs(2) = 4000
        /\ \A n \in 1 .. MaxBackoffN + 1 :
             /\ backoffMs(n) = C17_Table(n)
             /\ backoffMs(n) <= 60000
             /\ backoffMs(n) <= backoffMs(n + 1))
  /\ [][\A i \in Instances :
          ReleasesAfterRead(i) /\ outcome[i].status = "retry" /\ ~fresh[i]
            => LET r == run[i].run_id IN
                 /\ runs'[r].status = "waiting"
                 /\ runs'[r].attempt = run[i].attempt + 1
                 /\ runs'[r].wake_at = now + C17_Table(run[i].attempt + 1)]_vars

\* a run in its sixth backoff: 1000 * 2^6 is above the cap, the run sleeps 60000
C17_Witness ==
  \E r \in DOMAIN runs :
    /\ runs[r].status = "waiting"
    /\ runs[r].attempt >= 6
    /\ runs[r].last_error # Null
    /\ now >= BackoffTotal(5)
    /\ runs[r].wake_at = now + 60000

(* ------------------------------ C15 ----------------------------------- *)
\* run r is locked by an instance that died, and the lock has expired
C15_StaleLock(r) ==
  /\ r \in DOMAIN runs
  /\ \E i \in Instances : pc[i] = "dead" /\ runs[r].locked_by = i
  /\ runs[r].lock_expires_at <= now

\* a handler is running on run r for the instance that holds its lock
C15_Dispatched(r) ==
  \E j \in Instances :
    /\ pc[j] = "handler" /\ run[j].run_id = r
    /\ r \in DOMAIN runs /\ runs[r].locked_by = j

C20_OneRunPerAdvance ==
  /\ [](cron.on =>
          /\ cron.round <= cron.maxRounds
          /\ cron.total <= cron.round
          /\ cron.ticks <= cron.maxRounds
          /\ pc["A"] = "idle" => cron.ticks <= cron.total
          /\ pc["A"] = "idle" /\ (\A r \in DOMAIN runs : getAdvanceHandler(runs[r].clog_id))
               => cron.ticks = cron.total
          /\ \A r \in DOMAIN runs :
               createdWith[r].set
                 => /\ runs[r].status = "pending"
                    /\ runs[r].pending_input = createdWith[r].input
                    /\ runs[r].attempt = 0
                    /\ Unlocked(runs[r]))
  /\ [][\A i \in Instances :
          /\ Acquires(i)
               => /\ runs'[run'[i].run_id].locked_by = i
                  /\ \A r \in DOMAIN runs \ {run'[i].run_id} : runs'[r] = runs[r]
          /\ pc[i] \in InFlight /\ pc'[i] # pc[i]
               => \A r \in DOMAIN runs \ {run[i].run_id} : runs'[r] = runs[r]
          /\ pc'[i] = "handler" /\ pc[i] # "handler"
               => /\ pc[i] = "dispatch"
                  /\ getAdvanceHandler(run[i].clog_id)
                  /\ run[i].clog_id = runs[run[i].run_id].clog_id
                  /\ runs[run[i].run_id].locked_by = i
          /\ pc[i] = "handler" /\ pc'[i] # pc[i] => pc'[i] \in {"release", "returned"}
          /\ pc[i] = "release" /\ pc'[i] # pc[i] => pc'[i] = "returned"
          /\ ReturnsNone(i)
               => /\ result'[i] = [advanced |-> 0, runId |-> Null, outcome |-> Null]
                  /\ runs' = runs
          /\ pc[i] \in InFlight /\ pc'[i] = "returned"
               => /\ result'[i].advanced = 1
                  /\ result'[i].runId = run[i].run_id
                  /\ result'[i].outcome # Null]_vars

\* the drain loop has used up its rounds, each round ran one handler, and a run
\* nobody has touched is still eligible
C20_Witness ==
  /\ cron.on /\ cron.maxRounds >= 2
  /\ cron.round = cron.maxRounds
  /\ cron.ticks = cron.maxRounds
  /\ cron.total = cron.maxRounds
  /\ pc["A"] = "idle"
  /\ \E r \in DOMAIN runs :
       /\ createdWith[r].set
       /\ Eligible(runs[r], now)
       /\ runs[r].pending_input \in Inputs

(* -------------------- claims on the tools of a tick ------------------- *)
\* the tool call that returns in this step was made on invoker k with this name
Calls(k, name) == toolResult'.inv = k /\ toolResult'.name = name
ReadName == "ocean.storage.read_scoped"
WriteName == "ocean.storage.write_scoped"
BudgetCodes ==
  {"STORAGE_READ_ALREADY_CALLED", "STORAGE_WRITE_BEFORE_READ", "STORAGE_WRITE_ALREADY_CALLED"}
Fails(code) == ~toolResult'.ok /\ toolResult'.code = code

\* C22: on one invoker a second read_scoped fails with STORAGE_READ_ALREADY_CALLED,
\* a write_scoped before any read_scoped fails with STORAGE_WRITE_BEFORE_READ and a
\* second write_scoped fails with STORAGE_WRITE_ALREADY_CALLED; a call rejected
\* with one of the three codes changes neither the storage tables nor any ledger
\* or flag.
C22_StorageProtocol ==
  [][\A k \in DOMAIN invokers :
       /\ Calls(k, ReadName) /\ invokers[k].readCalled
            => Fails("STORAGE_READ_ALREADY_CALLED")
       /\ Calls(k, WriteName) /\ ~invokers[k].readCalled
            => Fails("STORAGE_WRITE_BEFORE_READ")
       /\ Calls(k, WriteName) /\ invokers[k].readCalled /\ invokers[k].writeCalled
            => Fails("STORAGE_WRITE_ALREADY_CALLED")
       /\ toolResult'.inv = k /\ toolResult'.code \in BudgetCodes
            => ~toolResult'.ok /\ UNCHANGED <<store, invokers>>]_vars
\* a second write_scoped has been rejected after the first one wrote
C22_Witness ==
  /\ toolResult.code = "STORAGE_WRITE_ALREADY_CALLED"
  /\ invokers[toolResult.inv].writeCalled
  /\ \E key \in DOMAIN store.rows : store.rows[key] \in Values

\* the scope ids an op names are those of the tick context
ScopeMatches(ctx, op) ==
  /\ op.sessionId \in {Null, ctx.sessionId}
  /\ op.runId \in {Null, ctx.runId}
  /\ op.tickId \in {Null, ctx.tickId}
\* the identity an op targets is in the ledger; for tick.delete: some tick row is
InLedger(ledger, op) ==
  \/ op.op \in {"global.set", "global.clear"} /\ ledger.global
  \/ op.op \in {"session.set", "session.clear", "session.delete"}
       /\ op.sessionId \in ledger.session
  \/ op.op \in {"run.set", "run.clear", "run.delete"} /\ op.runId \in ledger.run
  \/ op.op \in {"tick.set", "tick.del"}
       /\ <<op.runId, op.tickId, op.rowId>> \in ledger.tickRows
  \/ op.op = "tick.delete" /\ ledger.tickRows # {}
\* the row a clear or del op removes
ClearedKey(clogId, op) ==
  IF op.op = "global.clear" THEN storageGlobal(clogId)
  ELSE IF op.op = "session.clear" THEN storageSession(clogId, op.sessionId)
  ELSE IF op.op = "run.clear" THEN storageRun(clogId, op.runId)
  ELSE storageTick(clogId, op.runId, op.tickId, op.rowId)
ClearOps == {op \in Ops : op.op \in {"global.clear", "session.clear", "run.clear", "tick.del"}}

\* C21: an op of a known kind passes the validation of write_scoped if and only
\* if its scope ids are those of the tick context and its target identity is in
\* the invoker's ledger (for tick.delete: some tick row is), whether or not the
\* target row exists; a ledger changes only in a read_scoped of its invoker, so
\* every op a write_scoped applies targets an identity the same invoker read
\* earlier in the tick; and a batch that clears rows which were read but never
\* stored is applied.
C21_ReadBeforeWrite ==
  /\ [](\A k \in DOMAIN invokers : \A op \in Ops :
          LET ctx == invokers[k].tickCtx
              ledger == invokers[k].ledger
          IN
          /\ validateOp(ctx, ledger, op) = Null
               <=> op.op # "bogus" /\ ScopeMatches(ctx, op) /\ InLedger(ledger, op)
          /\ op \in ClearOps /\ ScopeMatches(ctx, op) /\ InLedger(ledger, op)
               /\ store.rows[ClearedKey(ctx.clogId, op)] = Absent
               => storageWriteScoped(store, ctx, <<op>>, ledger).code = Null)
  /\ [][\A k \in DOMAIN invokers :
         /\ invokers'[k].ledger # invokers[k].ledger => Calls(k, ReadName)
         /\ Calls(k, WriteName) /\ toolResult'.ok
              => \A j \in DOMAIN toolResult'.ops : LET op == toolResult'.ops[j] IN
                   /\ ScopeMatches(invokers[k].tickCtx, op)
                   /\ InLedger(invokers[k].ledger, op)
                   /\ invokers[k].readCalled]_vars
\* a write_scoped has cleared the global row, which the invoker had read and which
\* no tick has ever stored
C21_Witness ==
  /\ toolResult.name = WriteName /\ toolResult.ok
  /\ toolResult.ops = <<Op("global.clear", Null, Null, Null, Null, Null)>>
  /\ invokers[toolResult.inv].ledger.global
  /\ store = storeWith(Absent)

ValidationCodes == {"RBW_VIOLATION", "INVALID_SCOPE"}

\* C24: a write_scoped that fails, in validation (RBW_VIOLATION, INVALID_SCOPE)
\* or while its transaction runs, leaves every table as it was and applies
\* nothing; one that succeeds had every op of its batch pass validation, leaves
\* the tables as the ops applied one after the other in the order of the batch
\* leave them, and returns applied = the number of ops.
C24_AllOrNothing ==
  [][\A k \in DOMAIN invokers :
       LET ctx == invokers[k].tickCtx
           ops == toolResult'.ops
       IN
       Calls(k, WriteName) =>
         /\ ~toolResult'.ok => store' = store /\ toolResult'.applied = 0
         /\ toolResult'.ok =>
              /\ \A j \in DOMAIN ops : validateOp(ctx, invokers[k].ledger, ops[j]) = Null
              /\ toolResult'.applied = Len(ops)
              /\ applyOps(store, ctx, ops, 1).ok
              /\ store' = applyOps(store, ctx, ops, 1).st]_vars
\* a batch whose first op deleted the session and whose second op then failed
\* on the missing parent row has been rolled back: the session is still there
C24_Witness ==
  /\ toolResult.name = WriteName
  /\ toolResult.code = "SQLITE_CONSTRAINT"
  /\ store = storeWith(Stored)

HistoryKind == "history_ticks_for_run"
\* the read_scoped that has just returned ok on invoker k had history plans only
HistoryOnlyRead(k) ==
  /\ toolResult.inv = k /\ toolResult.name = ReadName /\ toolResult.ok
  /\ toolResult.kinds = {HistoryKind}

\* C26 as stated: after a read_scoped of history plans only, every write_scoped op
\* fails validation with RBW_VIOLATION.
C26_Original ==
  \A k \in DOMAIN invokers :
    HistoryOnlyRead(k) =>
      \A op \in Ops :
        validateOp(invokers[k].tickCtx, invokers[k].ledger, op) = "RBW_VIOLATION"

\* C26, amended: a read_scoped leaves in the (until then empty) ledger exactly
\* what its non-history plans name, so history plans add nothing; after a
\* read_scoped of history plans only the ledger is empty and every write_scoped op
\* fails validation: with RBW_VIOLATION when it is of a known kind and names the
\* ids of the tick context, with INVALID_SCOPE otherwise; a write_scoped made
\* then applies nothing.
C26_HistoryUnlocksNothing ==
  /\ [](\A k \in DOMAIN invokers :
          HistoryOnlyRead(k) =>
            /\ invokers[k].ledger = emptyLedger
            /\ \A op \in Ops :
                 validateOp(invokers[k].tickCtx, invokers[k].ledger, op)
                   = IF op.op # "bogus" /\ ScopeMatches(invokers[k].tickCtx, op)
                     THEN "RBW_VIOLATION" ELSE "INVALID_SCOPE")
  /\ [][\A k \in DOMAIN invokers :
         /\ Calls(k, ReadName) /\ toolResult'.ok
              => invokers'[k].ledger = toolResult'.named
         /\ Calls(k, WriteName) /\ invokers[k].ledger = emptyLedger
              => /\ store' = store
                 /\ toolResult'.ok => toolResult'.ops = <<>>
                 /\ ~toolResult'.ok => toolResult'.code \in ValidationCodes \cup BudgetCodes]_vars
\* a read_scoped of history plans only has returned the tick rows of the run's
\* ticks, and the ledger is empty
C26_Witness ==
  /\ HistoryOnlyRead(1)
  /\ toolResult.seen # {}
  /\ invokers[1].ledger = emptyLedger

\* the rows of clog c in the scope of the tick: its global row and its rows of
\* the tick's session, run and tick
OwnRows(c) ==
  {storageGlobal(c), storageSession(c, tickCtx.sessionId), storageRun(c, tickCtx.runId)}
  \cup {storageTick(c, tickCtx.runId, tickCtx.tickId, x) : x \in RowIds}
\* the tick rows of clog c under the run of the tick, whatever their tick
RunTickRows(c) == {key \in StorageKeys : key[1] = "tick" /\ key[2] = c /\ key[3] = tickCtx.runId}
\* the rows, of any clog, that the cascade of an entity delete removes
Under(op) ==
  IF op.op = "session.delete" THEN
    {key \in StorageKeys : \/ key[1] = "session" /\ key[3] = op.sessionId
                           \/ key[1] \in {"run", "tick"} /\ sessionOf(key[3]) = op.sessionId}
  ELSE IF op.op = "run.delete" THEN
    {key \in StorageKeys : key[1] \in {"run", "tick"} /\ key[3] = op.runId}
  ELSE IF op.op = "tick.delete" THEN
    {key \in StorageKeys : key[1] = "tick" /\ key[3] = op.runId /\ key[4] = op.tickId}
  ELSE {}
\* the rows this step writes, removes or replaces
Touched == {key \in StorageKeys : store'.rows[key] # store.rows[key]}
\* a plan names only ids of the tick context
PlanMatches(ctx, plan) ==
  /\ plan.sessionId \in {Null, ctx.sessionId}
  /\ plan.runId \in {Null, ctx.runId}
  /\ plan.tickId \in {Null, ctx.tickId}

\* C27 as stated: the rows a read_scoped reads and the rows a write_scoped changes
\* are the adapter's own global row and its session, run and tick rows of the
\* tick's session, run and tick.
C27_Original ==
  [][\A k \in DOMAIN invokers :
       /\ Calls(k, ReadName) /\ toolResult'.ok
            => toolResult'.seen \subseteq OwnRows(invokers[k].tickCtx.clogId)
       /\ Calls(k, WriteName) => Touched \subseteq OwnRows(invokers[k].tickCtx.clogId)]_vars

\* C27, amended: a read plan or a write op that names a sessionId, a runId or a
\* (runId, tickId) other than the tick context's fails with INVALID_SCOPE.  So a
\* read_scoped reads the adapter's own rows of the tick's scope and, through a
\* history plan, the adapter's tick rows of any tick of the current run; a
\* write_scoped changes the adapter's own rows of the tick's scope and, through
\* session.delete, run.delete or tick.delete of the tick's own session, run or
\* tick, the rows of every adapter that the cascade removes.
C27_Confinement ==
  /\ [](\A k \in DOMAIN invokers :
          LET ctx == invokers[k].tickCtx IN
          /\ \A op \in Ops :
               op.op # "bogus" /\ ~ScopeMatches(ctx, op)
                 => validateOp(ctx, invokers[k].ledger, op) = "INVALID_SCOPE"
          /\ \A plan \in Plans :
               plan.kind # "bogus" /\ ~PlanMatches(ctx, plan)
                 => storageReadScoped(store, ctx, <<plan>>, invokers[k].ledger).code
                      = "INVALID_SCOPE")
  /\ [][\A k \in DOMAIN invokers :
         LET c == invokers[k].tickCtx.clogId
             ops == toolResult'.ops
         IN
         /\ Calls(k, ReadName) /\ toolResult'.ok
              => toolResult'.seen \subseteq
                   OwnRows(c) \cup (IF HistoryKind \in toolResult'.kinds
                                    THEN RunTickRows(c) ELSE {})
         /\ Calls(k, WriteName)
              => /\ Touched \subseteq
                      OwnRows(c) \cup UNION {Under(ops[j]) : j \in DOMAIN ops}
                 /\ \A j \in DOMAIN ops : ScopeMatches(invokers[k].tickCtx, ops[j])]_vars
\* run.delete of the tick's run has removed the run row another adapter stored
C27_Witness ==
  /\ toolResult.name = WriteName /\ toolResult.ok
  /\ toolResult.ops = <<Op("run.delete", Null, "r1", Null, Null, Null)>>
  /\ invokers[toolResult.inv].tickCtx.clogId = "worker"
  /\ store.rows[storageRun("no-advance", "r1")] = Absent
  /\ store.rows[storageGlobal("no-advance")] = Stored

\* C23: in one tick, over all the invokers made for an adapter (the owner's and
\* those ocean.clog.call made), at most one read_scoped and at most one
\* write_scoped are accepted.
C23_BudgetPerAdapter ==
  \A c \in DOMAIN tally : tally[c].reads <= 1 /\ tally[c].writes <= 1

ClogCallName == "ocean.clog.call"

\* C25: an ocean.clog.call that reaches an endpoint hands it a new invoker: the
\* callee's clogId, the caller's sessionId, runId and tickId, both flags false,
\* the ledger empty.  A tool call on one invoker leaves the flags and the ledger
\* of every other invoker as they were, and a write_scoped is validated against
\* the ledger of its own invoker only: what another invoker has read authorizes
\* nothing.
C25_PeerIsolation ==
  [][\A k \in DOMAIN invokers :
       toolResult'.inv = k =>
         /\ \A j \in DOMAIN invokers \ {k} : invokers'[j] = invokers[j]
         /\ toolResult'.name # ClogCallName \/ toolResult'.endpoint = Null
              => Len(invokers') = Len(invokers)
         /\ Calls(k, ClogCallName) /\ toolResult'.endpoint # Null
              => /\ invokers'[k] = invokers[k]
                 /\ invokers' =
                      Append(invokers,
                             [tickCtx |-> [invokers[k].tickCtx EXCEPT
                                             !.clogId = toolResult'.address[2]],
                              readCalled |-> FALSE, writeCalled |-> FALSE,
                              ledger |-> emptyLedger])
         /\ Calls(k, WriteName) /\ toolResult'.ok
              => \A j \in DOMAIN toolResult'.ops :
                   InLedger(invokers[k].ledger, toolResult'.ops[j])]_vars
\* the endpoint of a peer call has read its run row and has been refused the
\* write of the global row, which its caller, the same adapter, had read
C25_Witness ==
  /\ Len(invokers) >= 2
  /\ toolResult.inv = 2 /\ toolResult.name = WriteName
  /\ toolResult.code = "RBW_VIOLATION"
  /\ invokers[1].ledger.global /\ invokers[1].tickCtx.clogId = invokers[2].tickCtx.clogId
  /\ invokers[2].ledger = [emptyLedger EXCEPT !.run = {"r1"}]

\* C28: a tool call never rejects: every failure comes back as {ok: false, error}
\* with a code.  A name the invoker does not know gives UNKNOWN_TOOL; an
\* ocean.clog.call whose address is malformed or names no registered endpoint
\* gives UNKNOWN_ENDPOINT; an exception of a peer endpoint gives the exception's
\* code, or OCEAN_TOOL_ERROR when it has none.
C28_InvokerNeverThrows ==
  LET r == toolResult
      resolves == isAddress(r.address) /\ getHandler(r.address[2], r.address[3])
  IN
  /\ ~r.threw
  /\ ~r.ok => r.code \notin {Null, Undefined}
  /\ r.ok => r.code = Null
  /\ r.name = "ocean.bogus" => ~r.ok /\ r.code = "UNKNOWN_TOOL"
  /\ r.name = ClogCallName =>
       /\ ~resolves => ~r.ok /\ r.code = "UNKNOWN_ENDPOINT" /\ r.endpoint = Null
       /\ resolves /\ r.endpoint = "throw E_PEER" => ~r.ok /\ r.code = "E_PEER"
       /\ resolves /\ r.endpoint = "throw" => ~r.ok /\ r.code = "OCEAN_TOOL_ERROR"
       /\ resolves /\ r.endpoint = "return" => r.ok
  /\ r.name \in {ReadName, WriteName} /\ ~r.ok
       => r.code \in BudgetCodes \cup ValidationCodes \cup {"SQLITE_CONSTRAINT"}
\* the endpoint of a peer call has thrown an error without a code, and the
\* caller has got {ok: false} with OCEAN_TOOL_ERROR
C28_Witness ==
  /\ toolResult.name = ClogCallName
  /\ toolResult.endpoint = "throw"
  /\ ~toolResult.ok /\ toolResult.code = "OCEAN_TOOL_ERROR"
  /\ Len(invokers) = 2

(* --- the event log --- *)

\* a readEvents call of the step: the rows the client received in it
Page == SubSeq(reader'.got, Len(reader.got) + 1, Len(reader'.got))
\* the stored events of the client's scope
InScope ==
  {e \in events :
     \/ reader.scope.kind = "global" /\ e.scope_kind = "global"
     \/ reader.scope.kind = "session" /\ e.session_id = reader.scope.id
     \/ reader.scope.kind = "run" /\ e.run_id = reader.scope.id}
\* the stored events a readEvents call with the client's cursor may return
Matching == {e \in InScope : e.seq > reader.afterSeq}

\* C29: emit assigns a seq larger than every seq ever assigned, so no two events
\* share a seq; a readEvents call returns, in ascending seq order, the first
\* `limit` stored events after the cursor that match the scope; a client that
\* reads with the seq of the last event it received has every stored event of
\* its scope up to its cursor exactly once, in the order of their seq.
C29_CursorExact ==
  /\ [](/\ \A e \in events : e.seq \in 1 .. sqliteSeq
        /\ \A e, f \in events : e.seq = f.seq => e = f
        /\ \A i, j \in DOMAIN reader.got : i < j => reader.got[i].seq < reader.got[j].seq
        /\ \A i \in DOMAIN reader.got : reader.got[i].seq <= reader.afterSeq
        /\ \A e \in InScope : e.seq <= reader.afterSeq => \E i \in DOMAIN reader.got : reader.got[i] = e)
  /\ [][/\ \A e \in events' \ events : e.seq > sqliteSeq /\ \A f \in events : e.seq > f.seq
        /\ reader' # reader =>
             \E limit \in 1 .. MaxLimit :
               /\ Len(Page) = IF Cardinality(Matching) < limit THEN Cardinality(Matching) ELSE limit
               /\ \A j \in DOMAIN Page : Page[j] \in Matching
               /\ \A i, j \in DOMAIN Page : i < j => Page[i].seq < Page[j].seq
               /\ \A e \in Matching : (\E j \in DOMAIN Page : e.seq < Page[j].seq) =>
                                         \E j \in DOMAIN Page : Page[j] = e
               /\ reader'.afterSeq = Page[Len(Page)].seq
               /\ reader'.scope = reader.scope]_vars

\* the client of a session has received the two events of its session that are
\* stored, the second and the third ever emitted, and the first one was swept
C29_Witness ==
  /\ reader.scope.kind = "session"
  /\ Len(reader.got) = 2
  /\ reader.got[1].seq = 2
  /\ sqliteSeq = 3
  /\ Cardinality(events) = 2

\* gcEventsIfDue with the options of the ocean
GcMinInterval == IF gc.minInterval = <<>> THEN 60000 ELSE gc.minInterval[1]

\* C30: a sweep deletes the events with ts < now - ttlMs and no others; without
\* eventsTtlMs gcEventsIfDue never deletes and never records a sweep; a sweep
\* comes no sooner than eventsGcMinIntervalMs (60000 ms when not given) after
\* the one before it; events are deleted by sweeps only.
C30_GcEvents ==
  [][/\ gc'.sweeps # gc.sweeps =>
          /\ gc.ttl # <<>>
          /\ events' = {e \in events : e.ts >= now - gc.ttl[1]}
          /\ gc.sweptAt # NullTs => now - gc.sweptAt >= GcMinInterval
          /\ gc'.sweptAt = now
     /\ gc.ttl = <<>> => gc' = gc
     /\ ~(events \subseteq events') => gc'.sweeps = gc.sweeps + 1]_vars

\* with the default interval, the second sweep has deleted an event and kept the
\* one emitted exactly ttlMs before it
C30_Witness ==
  /\ gc.minInterval = <<>>
  /\ gc.sweeps = 2
  /\ Cardinality(events) < sqliteSeq
  /\ \E e \in events : e.ts = gc.sweptAt - gc.ttl[1]

(* ------------------------------ C32 ----------------------------------- *)
\* C32: in every reachable state a run whose status is waiting has a non-null
\* wake_at, after a wait outcome as after a retry that is not exhausted.
C32_WaitingHasWakeAt ==
  \A r \in DOMAIN runs : runs[r].status = "waiting" => runs[r].wake_at # NullTs

\* a run waits out the backoff of its first retry, released and not yet due
C32_Witness ==
  \E r \in DOMAIN runs :
    /\ runs[r].status = "waiting"
    /\ runs[r].attempt = 1
    /\ runs[r].last_error # Null
    /\ runs[r].wake_at > now
    /\ Unlocked(runs[r])

C38_AttemptRange ==
  \A r \in DOMAIN runs :
    /\ 0 <= runs[r].attempt
    /\ runs[r].attempt <= runs[r].max_attempts
    /\ runs[r].attempt = runs[r].max_attempts => runs[r].status = "failed"

\* a run of two attempts has failed on its second retry
C38_Witness ==
  \E r \in DOMAIN runs :
    /\ runs[r].max_attempts = 2
    /\ runs[r].attempt = 2
    /\ runs[r].status = "failed"

(* ------------------------------ C35 ----------------------------------- *)
\* run r is still locked by the process that died past its consume, and nobody
\* has signalled it since
C35_Orphaned(r) ==
  /\ lost.set /\ lost.runId = r
  /\ r \in DOMAIN runs
  /\ runs[r].locked_by # Null
  /\ pc[runs[r].locked_by] = "dead"
  /\ pendingSig[r] = NoSig

\* C35: when an instance has acquired a run, cleared its pending_input and died
\* before releasing, the input is stored nowhere: the row holds null and the
\* attempt of the acquire, no live instance holds the run, and the instance that
\* steals the expired lock gets, and hands to its handler, input null and the
\* unchanged attempt.
C35_CrashAfterConsume ==
  /\ [](\A r \in DOMAIN runs :
          C35_Orphaned(r) =>
            /\ runs[r].pending_input = Null
            /\ runs[r].attempt = lost.attempt
            /\ \A j \in Instances : run[j].run_id # r)
  /\ [][\A j \in Instances :
          /\ Acquires(j) /\ C35_Orphaned(run'[j].run_id) =>
               /\ Lte(runs[run'[j].run_id].lock_expires_at, now)
               /\ run'[j].pending_input = Null
               /\ run'[j].attempt = lost.attempt
               /\ pc'[j] = "dispatch"
          /\ pc[j] = "dispatch" /\ pc'[j] = "handler" => run'[j] = run[j]]_vars

\* A died holding input "a"; B has stolen the lock and its handler runs with
\* input null and the attempt A had
C35_Witness ==
  /\ lost.set
  /\ lost.input = "a"
  /\ pc["A"] = "dead"
  /\ pc["B"] = "handler"
  /\ run["B"].run_id = lost.runId
  /\ run["B"].pending_input = Null
  /\ run["B"].attempt = lost.attempt
  /\ runs[lost.runId].locked_by = "B"
  /\ pendingSig[lost.runId] = NoSig

(* ------------------------------ C33 ----------------------------------- *)
\* C33: signal detection at release does not depend on the payload: when the
\* handler has returned ok and applyOutcome reads the row, a signal committed
\* since the consume is seen as new input whatever it carried (the input being
\* processed, another one, or none), and the release that follows leaves the
\* run pending.
C33_PayloadIndependent ==
  [][\A i \in Instances :
       /\ pc[i] = "handler" /\ pc'[i] = "release" /\ outcome'[i].status = "ok"
            => (fresh'[i] <=> pendingSig[run[i].run_id] # NoSig)
       /\ ReleasesAfterRead(i) /\ outcome[i].status = "ok" /\ fresh[i]
            => runs'[run[i].run_id].status = "pending"]_vars

(* ------------------------------ C36 ----------------------------------- *)
\* instance i applies the outcome of its tick: the releaseRun of advance()
C36_Releases(i) == pc[i] \in {"dispatch", "handler", "release"} /\ pc'[i] = "returned"

\* C36: when every tick ends before the lock taken for it expires, no two
\* handler invocations for one run are in flight at any time, an instance in
\* flight holds the valid lock of its run, a lock is won only when no tick of
\* the run is in flight, so outcomes are applied in the order the locks were
\* won, and every release is applied to a row still locked by the releasing
\* instance.
C36_SerialTicks ==
  /\ [](/\ \A i, j \in Instances :
             i # j /\ pc[i] \in InFlight /\ pc[j] \in InFlight => run[i].run_id # run[j].run_id
        /\ \A i \in Instances :
             pc[i] \in InFlight =>
               /\ runs[run[i].run_id].locked_by = i
               /\ runs[run[i].run_id].lock_expires_at > now)
  /\ [][\A i \in Instances :
          /\ C36_Releases(i) =>
               /\ runs[run[i].run_id].locked_by = i
               /\ runs[run[i].run_id].lock_expires_at > now
               /\ Unlocked(runs'[run[i].run_id])
          /\ Acquires(i) =>
               \A j \in Instances : pc[j] \in InFlight => run[j].run_id # run'[i].run_id]_vars

\* A has applied the outcome of its tick and returned; B now runs the next tick
\* of the same run under its own lock
C36_Witness ==
  \E r \in DOMAIN runs :
    /\ pc["A"] = "returned" /\ result["A"].advanced = 1 /\ result["A"].runId = r
    /\ pc["B"] = "handler" /\ run["B"].run_id = r
    /\ runs[r].locked_by = "B"

(* ------------------------------ C40 ----------------------------------- *)
\* run r is eligible: pending, or waiting with wakeAt reached, and not validly locked
C40_Eligible(r) ==
  /\ r \in DOMAIN runs
  /\ \/ runs[r].status = "pending"
     \/ runs[r].status = "waiting" /\ runs[r].wake_at # NullTs /\ runs[r].wake_at <= now
  /\ ~ValidLock(runs[r], now)
\* some instance has acquired run r and not yet released it
C40_Acquired(r) == \E i \in Instances : pc[i] \in InFlight /\ run[i].run_id = r

\* C40 as claimed: when advance() is called again and again and every handler
\* returns, every eligible run is eventually acquired, whatever the other runs do.
C40_NoStarvation ==
  \A r \in FairRunIds : C40_Eligible(r) ~> C40_Acquired(r)

\* C40, amended: when advance() is called again and again and every handler
\* returns, then from every state in which a run is eligible and no tick is in
\* flight, some run is acquired: the scheduler never idles past an eligible run.
\* Which run it takes is not determined.
C40_SomeRunAcquired ==
  \A r \in FairRunIds :
    (C40_Eligible(r) /\ \A i \in Instances : pc[i] \notin InFlight)
      ~> (\E i \in Instances : pc[i] \in {"consume", "dispatch"})

\* r2 has been eligible since it was created and was never acquired, while r1 is
\* in its second tick after a retry
C40_Witness ==
  /\ C40_Eligible("r2")
  /\ createdWith["r2"].set
  /\ pc["A"] = "handler"
  /\ run["A"].run_id = "r1"
  /\ run["A"].attempt = 1

LedgerWithin(a, b) ==
  /\ a.global => b.global
  /\ a.session \subseteq b.session
  /\ a.run \subseteq b.run
  /\ a.tickRows \subseteq b.tickRows

\* C39 as claimed: a failed storage call leaves the invoker as if the call had
\* not been made: after a read_scoped that fails with INVALID_SCOPE the ledger
\* is what it was and the read budget is unspent, and after a write_scoped that
\* fails validation the write budget is unspent.
C39_Original ==
  [][\A k \in DOMAIN invokers :
       /\ Calls(k, ReadName) /\ Fails("INVALID_SCOPE") =>
            /\ invokers'[k].ledger = invokers[k].ledger
            /\ ~invokers'[k].readCalled
       /\ Calls(k, WriteName) /\ (\E c \in ValidationCodes : Fails(c)) =>
            ~invokers'[k].writeCalled]_vars

\* C39, amended: a failed storage call spends the budget of its kind.  A
\* read_scoped that fails with INVALID_SCOPE was made on an unspent read budget
\* and leaves it spent, leaves the write budget and the store as they were, and
\* leaves a ledger that holds what it held before (and whatever the plans ahead
\* of the failing one recorded); a write_scoped that fails validation was made
\* on an unspent write budget and leaves it spent, with ledger and store as they
\* were.  A further call of the same kind on that invoker fails with
\* STORAGE_READ_ALREADY_CALLED or STORAGE_WRITE_ALREADY_CALLED and changes
\* nothing; a write_scoped after a failed read is not refused for its budget.
C39_FailedCallSpendsBudget ==
  [][\A k \in DOMAIN invokers :
       /\ Calls(k, ReadName) /\ Fails("INVALID_SCOPE") =>
            /\ ~invokers[k].readCalled
            /\ invokers'[k].readCalled
            /\ invokers'[k].writeCalled = invokers[k].writeCalled
            /\ LedgerWithin(invokers[k].ledger, invokers'[k].ledger)
            /\ store' = store
       /\ Calls(k, WriteName) /\ (\E c \in ValidationCodes : Fails(c)) =>
            /\ ~invokers[k].writeCalled
            /\ invokers'[k].writeCalled
            /\ invokers'[k].readCalled = invokers[k].readCalled
            /\ invokers'[k].ledger = invokers[k].ledger
            /\ store' = store
       /\ Calls(k, ReadName) /\ invokers[k].readCalled =>
            /\ Fails("STORAGE_READ_ALREADY_CALLED")
            /\ invokers' = invokers
            /\ store' = store
       /\ Calls(k, WriteName) /\ invokers[k].writeCalled =>
            /\ ~toolResult'.ok
            /\ invokers' = invokers
            /\ store' = store
       /\ Calls(k, WriteName) /\ invokers[k].readCalled /\ ~invokers[k].writeCalled =>
            toolResult'.code \notin {"STORAGE_WRITE_BEFORE_READ",
                                     "STORAGE_WRITE_ALREADY_CALLED"}]_vars

\* the handler's only read named the global row and then a foreign session and
\* failed, so no read ever succeeded; the ledger kept the global entry, and the
\* corrected read_scoped it issued next has been refused
C39_Witness ==
  /\ toolResult.inv = 1
  /\ toolResult.name = ReadName
  /\ ~toolResult.ok
  /\ toolResult.code = "STORAGE_READ_ALREADY_CALLED"
  /\ invokers[1].readCalled
  /\ invokers[1].ledger.global
  /\ invokers[1].ledger.session = {}
  /\ \A c \in ClogIds : tally[c].reads = 0

\* the rows that exist in the tables st
RowsOf(st) == {k \in DOMAIN st.rows : st.rows[k] # Absent}
\* every foreign key of the tables st points at a row that exists
Referential(st) ==
  /\ \A k \in RowsOf(st) :
       /\ k[1] = "tick" => <<k[3], k[4]>> \in st.ticks
       /\ k[1] = "run" => k[3] \in st.runs
       /\ k[1] = "session" => k[3] \in st.sessions
  /\ \A tk \in st.ticks : tk[1] \in st.runs
  /\ \A r \in st.runs : sessionOf(r) \in st.sessions
\* the global storage rows of st and of after are the same
SameGlobal(st, after) ==
  \A k \in DOMAIN st.rows : k[1] = "global" => after.rows[k] = st.rows[k]
\* the step deletes a session, a run or a tick
DeletesEntity ==
  \/ store'.sessions # store.sessions
  \/ store'.runs # store.runs
  \/ store'.ticks # store.ticks

\* C31: in every reachable state each tick storage row references a tick that
\* exists, each tick and each run storage row a run that exists, each run and
\* each session storage row a session that exists.  Deleting a session, a run or
\* a tick takes all its descendants with it in the same step, whatever the
\* state it is deleted in, and takes no global storage row; a step that deletes
\* an entity leaves the event log as it was, and a global row that is gone after
\* such a step was cleared by a global.clear of the same batch.
C31_ReferentialIntegrity ==
  /\ [](/\ Referential(store)
        /\ \A s \in SessionIds :
             LET after == dropSession(store, s) IN
               /\ Referential(after)
               /\ s \notin after.sessions
               /\ \A r \in store.runs : sessionOf(r) = s => r \notin after.runs
               /\ SameGlobal(store, after)
        /\ \A r \in ScopeRunIds :
             LET after == dropRuns(store, {r}) IN
               /\ Referential(after)
               /\ r \notin after.runs
               /\ \A tk \in after.ticks : tk[1] # r
               /\ after.sessions = store.sessions
               /\ SameGlobal(store, after)
        /\ \A tk \in TickScopes :
             LET after == dropTicks(store, {tk}) IN
               /\ Referential(after)
               /\ tk \notin after.ticks
               /\ after.runs = store.runs /\ after.sessions = store.sessions
               /\ SameGlobal(store, after))
  /\ [][DeletesEntity =>
          /\ events' = events
          /\ sqliteSeq' = sqliteSeq
          /\ Calls(toolResult'.inv, WriteName) /\ toolResult'.ok
          /\ store'.sessions \subseteq store.sessions
          /\ store'.runs \subseteq store.runs
          /\ store'.ticks \subseteq store.ticks
          /\ \A k \in RowsOf(store) \ RowsOf(store') :
               k[1] = "global" =>
                 /\ k[2] = invokers[toolResult'.inv].tickCtx.clogId
                 /\ \E j \in DOMAIN toolResult'.ops : toolResult'.ops[j].op = "global.clear"]_vars

\* the session has been deleted by a write_scoped of one op: its run, the ticks
\* and every session, run and tick storage row went with it, while the global
\* rows and the events of run r1 and of tick t1 are still there
C31_Witness ==
  /\ toolResult.name = WriteName
  /\ toolResult.ok
  /\ toolResult.ops = <<Op("session.delete", "s1", Null, Null, Null, Null)>>
  /\ store.sessions = {}
  /\ store.runs = {}
  /\ store.ticks = {}
  /\ RowsOf(store) = {storageGlobal(c) : c \in ClogIds}
  /\ \E e \in events : e.scope_kind = "run" /\ e.run_id = "r1"
  /\ \E e \in events : e.scope_kind = "tick" /\ e.tick_id = "t1"

====
